---- MODULE Spec2Model ----
(***************************************************************************)
(* Dataset discovery and access layer of maplibre-gl-usgs-lidar:           *)
(* EptSearcher (boundary file loader, localStorage cache, local bbox       *)
(* search) and StacSearcher (catalog search, SAS token signing).           *)
(***************************************************************************)
EXTENDS Integers, Sequences, FiniteSets, TLC

(***************************************************************************)
(* JavaScript numbers.  Finite values are integers; the non-finite values  *)
(* and JSON's null are integers outside the range of every finite value    *)
(* the model uses.                                                         *)
(***************************************************************************)
Infinity == 1000000
NegInfinity == -Infinity
NaN == 2000000
JsonNull == 3000000

\* Number.isFinite
IsFinite(v) == v > NegInfinity /\ v < Infinity

\* Math.min / Math.max
MathMin(a, b) == IF a = NaN \/ b = NaN THEN NaN ELSE IF a < b THEN a ELSE b
MathMax(a, b) == IF a = NaN \/ b = NaN THEN NaN ELSE IF a > b THEN a ELSE b

\* ToNumber as applied by the relational operators: null converts to 0
ToNumber(v) == IF v = JsonNull THEN 0 ELSE v

\* a < b and a > b on JavaScript values (false when either side is NaN)
JsLt(a, b) == ToNumber(a) # NaN /\ ToNumber(b) # NaN /\ ToNumber(a) < ToNumber(b)
JsGt(a, b) == JsLt(b, a)

\* JSON.parse(JSON.stringify(v)) of a number: a non-finite number is written as null
JsonNumber(v) == IF IsFinite(v) THEN v ELSE JsonNull

\* T | null
None == <<>>
Some(x) == <<x>>

(***************************************************************************)
(* Bounds of the model.                                                    *)
(***************************************************************************)
MaxCalls == 2
MaxTime == 2

(***************************************************************************)
(* GeoJSON coordinates: a position [x, y] or an array of coordinates.      *)
(***************************************************************************)
Position(x, y) == [leaf |-> TRUE, xy |-> <<x, y>>, kids |-> <<>>]
CoordArray(ks) == [leaf |-> FALSE, xy |-> <<>>, kids |-> ks]

\* a closed ring around the box w, s, e, n, as a Polygon's coordinates
PolygonCoords(w, s, e, n) ==
  CoordArray(<<CoordArray(<<Position(w, s), Position(e, s), Position(e, n),
                           Position(w, n), Position(w, s)>>)>>)

Polygon(w, s, e, n) ==
  [type |-> "Polygon", hasCoordinates |-> TRUE, coordinates |-> PolygonCoords(w, s, e, n)]

\* a geometry with no coordinates member
GeometryCollection ==
  [type |-> "GeometryCollection", hasCoordinates |-> FALSE, coordinates |-> CoordArray(<<>>)]

\* processCoord: fold one position into [minX, minY, maxX, maxY]
ProcessCoord(acc, xy) ==
  <<MathMin(acc[1], xy[1]), MathMin(acc[2], xy[2]),
    MathMax(acc[3], xy[1]), MathMax(acc[4], xy[2])>>

\* a traversal that follows only the first element of each array
RECURSIVE TraverseFirstOnly(_, _)
TraverseFirstOnly(coords, acc) ==
  IF coords.leaf THEN ProcessCoord(acc, coords.xy)
  ELSE IF coords.kids = <<>> THEN acc
  ELSE TraverseFirstOnly(coords.kids[1], acc)

RECURSIVE Traverse(_, _)
RECURSIVE TraverseEach(_, _, _)
\* traverse: a position is folded, any other array is traversed element by element
Traverse(coords, acc) ==
  IF coords.leaf THEN ProcessCoord(acc, coords.xy)
  ELSE TraverseEach(coords.kids, 1, acc)

TraverseEach(kids, i, acc) ==
  IF i > Len(kids) THEN acc
  ELSE TraverseEach(kids, i + 1, Traverse(kids[i], acc))

\* EptSearcher._computeBbox
ComputeBbox(geometry) ==
  LET seed == <<Infinity, Infinity, NegInfinity, NegInfinity>>
  IN  IF geometry.hasCoordinates THEN Traverse(geometry.coordinates, seed) ELSE seed

(***************************************************************************)
(* The boundary files on the network: the GeoJSON features that            *)
(* topojson.feature yields for the file served at each URL.                *)
(***************************************************************************)
\* a feature of the file: its properties, its geometry and the bbox member
\* it carries, if any
SourceFeature(name, count, url, geometry) ==
  [name |-> name, count |-> count, url |-> url, geometry |-> geometry, bbox |-> None]

\* a feature whose object in the file has a bbox (topojson.feature copies it)
WithBbox(f, bbox) == [f EXCEPT !.bbox = Some(bbox)]

BoundaryFile(url) ==
  IF url = "urlA"
  THEN <<SourceFeature("a", 5, "ept/a", Polygon(0, 0, 2, 2)),
         SourceFeature("b", 9, "ept/b", Polygon(1, 1, 3, 3)),
         WithBbox(SourceFeature("c", 5, "ept/c", GeometryCollection), <<0, 0, 1, 1>>)>>
  ELSE <<SourceFeature("z", 1, "ept/z", Polygon(0, 0, 1, 1))>>

\* one element of geojson.features.map(...) in _loadBoundaries
ToEptFeature(f) ==
  [name |-> f.name, count |-> f.count, url |-> f.url,
   geometry |-> f.geometry, bbox |-> ComputeBbox(f.geometry)]

ToEptFeatures(file) == [i \in 1..Len(file) |-> ToEptFeature(file[i])]

\* JSON.parse(JSON.stringify(features)): what a stored feature array reads back as
JsonFeature(f) ==
  [f EXCEPT !.bbox = [k \in 1..4 |-> JsonNumber(f.bbox[k])]]

JsonRoundTrip(fs) == [i \in 1..Len(fs) |-> JsonFeature(fs[i])]

(***************************************************************************)
(* EptSearcher.                                                            *)
(***************************************************************************)
Searchers == {1, 2}

\* the boundaryUrl each searcher was constructed with
BoundaryUrl(s) == IF s = 1 THEN "urlA" ELSE "urlB"

\* the cacheDuration each searcher was constructed with (in clock ticks)
CacheDuration == 1

\* the bboxes and limits callers search with
QueryBoxes == {<<0, 0, 1, 1>>, <<3, 3, 4, 4>>}
QueryLimits == {1}

\* which localStorage methods throw in this browser session
StorageFaultModes ==
  {{}, {"setItem"}, {"removeItem"}, {"getItem", "setItem", "removeItem"}}

VARIABLES
  now,            \* Date.now()
  localStorage,   \* the item under CACHE_KEY: None or Some(parsed entry)
  storageFaults,  \* the localStorage methods that throw
  features,       \* _features of each searcher: None or Some(feature array)
  loadPromise,    \* _loadPromise of each searcher
  loadTask,       \* where the running _loadBoundaries() of each searcher stands
  calls,          \* the calls made on the searchers, and their results
  fetchCount,     \* fetch(boundaryUrl) requests issued by each searcher
  writeCount,     \* localStorage.setItem calls made by each searcher
  loadLog,        \* the loads each searcher started, and what the network answered
  lastSaved,      \* the feature array last handed to a setItem that succeeded
  clearCacheThrew \* whether a clearCache() call has thrown to its caller

eptVars == <<now, localStorage, storageFaults, features, loadPromise, loadTask,
             calls, fetchCount, writeCount, loadLog, lastSaved, clearCacheThrew>>

VARIABLES
  cachedToken,     \* _cachedToken of the StacSearcher: None or Some(token and expiry)
  copcCalls,       \* the getCopcUrl calls made on the StacSearcher
  tokenFetchCount, \* fetch(tokenUrl) requests issued by the StacSearcher
  searchCall       \* the search, searchByExtent, getCount, searchAll or
                   \* fetchNextPage call being made on the StacSearcher

stacVars == <<cachedToken, copcCalls, tokenFetchCount, searchCall>>

VARIABLES
  ctlInitialized,  \* _initialized of the UsgsLidarControl
  ctlState,        \* _state of the control: the fields the searches read and write
  ctlSearches,     \* the searchByBbox calls made on the control
  ctlEvents,       \* the search events the control has emitted, in order
  ctlLoads,        \* the loadItem calls made on the control
  bboxCall         \* a geometry handed to getBboxFromGeometry and to _computeBbox

ctlVars == <<ctlInitialized, ctlState, ctlSearches, ctlEvents, ctlLoads, bboxCall>>

\* the variables of the EptSearcher part other than the clock
eptState == <<localStorage, storageFaults, features, loadPromise, loadTask, calls,
              fetchCount, writeCount, loadLog, lastSaved, clearCacheThrew>>

vars == <<eptVars, stacVars, ctlVars>>

CallIds == 1..MaxCalls

NoTask == [pc |-> "none", value |-> <<>>, error |-> ""]
NoPromise == [state |-> "null", error |-> ""]
NoResult == [status |-> "none", features |-> <<>>, numberMatched |-> 0, error |-> ""]
IdleCall ==
  [s |-> 0, op |-> "none", bbox |-> <<0, 0, 0, 0>>, limit |-> 0, pc |-> "idle",
   load |-> 0, gotOk |-> FALSE, got |-> <<>>, gotError |-> "", result |-> NoResult]

\* the entry an earlier session left under CACHE_KEY
EarlierEntry ==
  [corrupt |-> FALSE, data |-> JsonRoundTrip(ToEptFeatures(BoundaryFile("urlA"))),
   timestamp |-> -1, expiresAt |-> -1 + CacheDuration]
CorruptEntry == [corrupt |-> TRUE, data |-> <<>>, timestamp |-> 0, expiresAt |-> 0]

\* the searchers as constructed, in a session that finds `stored` under
\* CACHE_KEY and in which the localStorage methods in `faults` throw
EptStart(stored, faults) ==
  /\ now = 0
  /\ localStorage = stored
  /\ storageFaults = faults
  /\ features = [s \in Searchers |-> None]
  /\ loadPromise = [s \in Searchers |-> NoPromise]
  /\ loadTask = [s \in Searchers |-> NoTask]
  /\ calls = [c \in CallIds |-> IdleCall]
  /\ fetchCount = [s \in Searchers |-> 0]
  /\ writeCount = [s \in Searchers |-> 0]
  /\ loadLog = [s \in Searchers |-> <<>>]
  /\ lastSaved = IF stored = Some(EarlierEntry)
                 THEN Some(ToEptFeatures(BoundaryFile("urlA"))) ELSE None
  /\ clearCacheThrew = FALSE

\* a cache whose entries are never fresh
ExpiredAlways(entry) == TRUE

\* Date.now() > entry.expiresAt
Expired(entry) == now > entry.expiresAt

\* _saveToCache without its try/catch
CatchesExceptSave(method) == method \in {"_getFromCache", "clearCache"}

\* the try/catch blocks of _getFromCache, _saveToCache and clearCache
Catches(method) == method \in {"_getFromCache", "_saveToCache", "clearCache"}

\* _getFromCache: the value returned, the item left in storage, and whether the
\* call threw
GetFromCache ==
  LET miss == [data |-> None, store |-> localStorage, threw |-> FALSE]
      thrown == [miss EXCEPT !.threw = ~Catches("_getFromCache")]
  IN  IF "getItem" \in storageFaults THEN thrown
      ELSE IF localStorage = None THEN miss
      ELSE LET entry == localStorage[1]
           IN  IF entry.corrupt THEN thrown
               ELSE IF Expired(entry)
               THEN IF "removeItem" \in storageFaults THEN thrown
                    ELSE [miss EXCEPT !.store = None]
               ELSE [miss EXCEPT !.data = Some(entry.data)]

\* the entry _saveToCache builds
NewEntry(fs) ==
  [corrupt |-> FALSE, data |-> JsonRoundTrip(fs), timestamp |-> now,
   expiresAt |-> now + CacheDuration]

\* _saveToCache: the item left in storage, and whether the call threw
SaveToCache(fs) ==
  IF "setItem" \in storageFaults
  THEN [store |-> localStorage, threw |-> ~Catches("_saveToCache")]
  ELSE [store |-> Some(NewEntry(fs)), threw |-> FALSE]

\* _ensureLoaded without the _loadPromise test: every call that finds no features loads
NeedsNewLoadNoDedup(s) == TRUE

\* _ensureLoaded starts a load only when none is held in _loadPromise
NeedsNewLoad(s) == loadPromise[s].state = "null"

\* an intersection test that does not count boxes that only touch
IntersectsOpen(f, bbox) ==
  ~(\/ ToNumber(f.bbox[3]) <= bbox[1]
    \/ ToNumber(f.bbox[1]) >= bbox[3]
    \/ ToNumber(f.bbox[4]) <= bbox[2]
    \/ ToNumber(f.bbox[2]) >= bbox[4])

\* an intersection test that treats the feature's east and north edges as open
IntersectsHalfOpen(f, bbox) ==
  ~(\/ ToNumber(f.bbox[3]) <= bbox[1]
    \/ JsGt(f.bbox[1], bbox[3])
    \/ ToNumber(f.bbox[4]) <= bbox[2]
    \/ JsGt(f.bbox[2], bbox[4]))

\* the bbox intersection test of searchByExtent
Intersects(f, bbox) ==
  ~(\/ JsLt(f.bbox[3], bbox[1])
    \/ JsGt(f.bbox[1], bbox[3])
    \/ JsLt(f.bbox[4], bbox[2])
    \/ JsGt(f.bbox[2], bbox[4]))

RECURSIVE Filter(_, _)
Filter(fs, bbox) ==
  IF fs = <<>> THEN <<>>
  ELSE (IF Intersects(Head(fs), bbox) THEN <<Head(fs)>> ELSE <<>>) \o Filter(Tail(fs), bbox)

\* insert f after every element whose count is not smaller: a stable descending sort
RECURSIVE InsertByCount(_, _)
InsertByCount(sorted, f) ==
  IF sorted = <<>> THEN <<f>>
  ELSE IF Head(sorted).count >= f.count
       THEN <<Head(sorted)>> \o InsertByCount(Tail(sorted), f)
       ELSE <<f>> \o sorted

\* a searchByExtent that does not sort
SortByCountOmitted(fs) == fs

RECURSIVE SortByCount(_)
SortByCount(fs) ==
  IF fs = <<>> THEN <<>>
  ELSE InsertByCount(SortByCount(SubSeq(fs, 1, Len(fs) - 1)), fs[Len(fs)])

\* slice(0, limit)
Slice(fs, limit) == SubSeq(fs, 1, IF limit < Len(fs) THEN limit ELSE Len(fs))

\* what the call returns once _ensureLoaded has resolved with fs
EptResult(call, fs) ==
  IF call.op = "searchByExtent"
  THEN [status |-> "resolved",
        features |-> Slice(SortByCount(Filter(fs, call.bbox)), call.limit),
        numberMatched |-> Len(Filter(fs, call.bbox)), error |-> ""]
  ELSE IF call.op = "getCount"
  THEN [status |-> "resolved", features |-> <<>>, numberMatched |-> Len(fs), error |-> ""]
  ELSE [status |-> "resolved", features |-> fs, numberMatched |-> Len(fs), error |-> ""]

\* what the call returns once _ensureLoaded has rejected
EptRejection(call, error) ==
  [status |-> "rejected", features |-> <<>>, numberMatched |-> 0, error |-> error]

(***************************************************************************)
(* EptSearcher: the operations, one action per run of code between awaits. *)
(***************************************************************************)
SetCall(c, call) == calls' = [calls EXCEPT ![c] = call]

\* a promise that wakes only the first of the calls awaiting it
WaitingFirstOnly(s) ==
  {c \in CallIds : /\ calls[c].s = s /\ calls[c].pc = "waiting"
                   /\ \A d \in CallIds : (calls[d].s = s /\ calls[d].pc = "waiting") => c <= d}

\* the calls awaiting the _loadPromise of searcher s
Waiting(s) == {c \in CallIds : calls[c].s = s /\ calls[c].pc = "waiting"}

NewLoad(source) == [source |-> source, response |-> "none", wrote |-> FALSE, settled |-> FALSE]

\* searchByExtent / getAllFeatures / getCount up to their await of _ensureLoaded(),
\* with the _loadBoundaries() that _ensureLoaded starts, up to its first await
EptCallStep(s, c, op, bbox, limit) ==
  LET call == [IdleCall EXCEPT !.s = s, !.op = op, !.bbox = bbox, !.limit = limit]
  IN
  /\ calls[c].pc = "idle"
  /\ \A d \in CallIds : d < c => calls[d].pc # "idle"
  /\ IF features[s] # None
     THEN /\ SetCall(c, [call EXCEPT !.pc = "ready", !.gotOk = TRUE, !.got = features[s][1]])
          /\ UNCHANGED <<localStorage, loadPromise, loadTask, fetchCount, loadLog>>
     ELSE IF NeedsNewLoad(s)
     THEN LET cached == GetFromCache
              hit == cached.data # None
          IN  /\ localStorage' = cached.store
              /\ loadPromise' = [loadPromise EXCEPT ![s] = [state |-> "pending", error |-> ""]]
              /\ loadTask' = [loadTask EXCEPT ![s] =
                   IF cached.threw THEN [pc |-> "failed", value |-> <<>>, error |-> "storageError"]
                   ELSE IF hit THEN [pc |-> "fulfilled", value |-> cached.data[1], error |-> ""]
                   ELSE [pc |-> "fetching", value |-> <<>>, error |-> ""]]
              /\ fetchCount' = [fetchCount EXCEPT ![s] = IF hit \/ cached.threw THEN @ ELSE @ + 1]
              /\ loadLog' = [loadLog EXCEPT ![s] =
                   Append(@, NewLoad(IF cached.threw THEN "none"
                                     ELSE IF hit THEN "cache" ELSE "network"))]
              /\ SetCall(c, [call EXCEPT !.pc = "waiting", !.load = Len(loadLog[s]) + 1])
     ELSE /\ SetCall(c, IF loadPromise[s].state = "pending"
                        THEN [call EXCEPT !.pc = "waiting", !.load = Len(loadLog[s])]
                        ELSE [call EXCEPT !.pc = "ready", !.load = Len(loadLog[s]),
                                          !.gotError = loadPromise[s].error])
          /\ UNCHANGED <<localStorage, loadPromise, loadTask, fetchCount, loadLog>>
  /\ UNCHANGED <<now, storageFaults, features, writeCount, lastSaved, clearCacheThrew>>

\* a call made by a caller other than the control
EptCall(s, c, op, bbox, limit) ==
  /\ EptCallStep(s, c, op, bbox, limit)
  /\ UNCHANGED <<stacVars, ctlVars>>

\* how a boundary fetch can end, and how reading its body can end
FetchOutcomes == {"ok", "httpError", "networkError"}
BodyOutcomes == {"ok", "invalidJson", "invalidTopology"}

\* _loadBoundaries from the settling of fetch() to `await response.json()`
FetchSettles(s, outcome) ==
  /\ loadTask[s].pc = "fetching"
  /\ loadTask' = [loadTask EXCEPT ![s] =
       IF outcome = "ok" THEN [@ EXCEPT !.pc = "parsing"]
       ELSE [@ EXCEPT !.pc = "failed", !.error = outcome]]
  /\ loadLog' = [loadLog EXCEPT ![s][Len(loadLog[s])].response =
       IF outcome = "ok" THEN @ ELSE outcome]
  /\ UNCHANGED <<now, localStorage, storageFaults, features, loadPromise, calls,
                 fetchCount, writeCount, lastSaved, clearCacheThrew>>
  /\ UNCHANGED <<stacVars, ctlVars>>

\* _loadBoundaries from the settling of response.json() to its return or throw
BodySettles(s, outcome) ==
  /\ loadTask[s].pc = "parsing"
  /\ IF outcome = "ok"
     THEN LET fs == ToEptFeatures(BoundaryFile(BoundaryUrl(s)))
              saved == SaveToCache(fs)
          IN  /\ localStorage' = saved.store
              /\ writeCount' = [writeCount EXCEPT ![s] = @ + 1]
              /\ lastSaved' = IF "setItem" \in storageFaults THEN lastSaved ELSE Some(fs)
              /\ loadLog' = [loadLog EXCEPT ![s][Len(loadLog[s])] =
                   [@ EXCEPT !.response = "ok", !.wrote = TRUE]]
              /\ loadTask' = [loadTask EXCEPT ![s] =
                   IF saved.threw THEN [@ EXCEPT !.pc = "failed", !.error = "storageError"]
                   ELSE [@ EXCEPT !.pc = "fulfilled", !.value = fs]]
     ELSE /\ loadTask' = [loadTask EXCEPT ![s] = [@ EXCEPT !.pc = "failed", !.error = outcome]]
          /\ loadLog' = [loadLog EXCEPT ![s][Len(loadLog[s])].response = outcome]
          /\ UNCHANGED <<localStorage, writeCount, lastSaved>>
  /\ UNCHANGED <<now, storageFaults, features, loadPromise, calls, fetchCount,
                 clearCacheThrew>>
  /\ UNCHANGED <<stacVars, ctlVars>>

\* a load whose failure is swallowed into an empty success
LoadFulfilledSwallowing(s) == TRUE

\* whether the promise of _loadBoundaries() reaches the .then() callback of
\* _ensureLoaded fulfilled (the callback has no rejection handler)
LoadFulfilled(s) == loadTask[s].pc = "fulfilled"

\* the .then() callback of _ensureLoaded once _loadBoundaries() has returned, or
\* the rejection passing through it; the promise the waiting calls hold settles
LoadSettles(s) ==
  /\ loadTask[s].pc \in {"fulfilled", "failed"}
  /\ LET ok == LoadFulfilled(s)
     IN  /\ features' = IF ok THEN [features EXCEPT ![s] = Some(loadTask[s].value)] ELSE features
         /\ loadPromise' = [loadPromise EXCEPT ![s] =
              IF ok THEN NoPromise ELSE [state |-> "rejected", error |-> loadTask[s].error]]
         /\ calls' = [c \in CallIds |->
              IF c \in Waiting(s)
              THEN [calls[c] EXCEPT !.pc = "ready", !.gotOk = ok,
                                    !.got = loadTask[s].value, !.gotError = loadTask[s].error]
              ELSE calls[c]]
  /\ loadLog' = [loadLog EXCEPT ![s][Len(loadLog[s])].settled = TRUE]
  /\ loadTask' = [loadTask EXCEPT ![s] = NoTask]
  /\ UNCHANGED <<now, localStorage, storageFaults, fetchCount, writeCount, lastSaved,
                 clearCacheThrew>>
  /\ UNCHANGED <<stacVars, ctlVars>>

\* a search that sorts the array of the instance itself
HeldAfterSortedInPlace(call, fs) ==
  IF call.op = "searchByExtent" THEN SortByCount(fs) ELSE fs

\* the array of the instance once a call has worked on it: filter() builds a new
\* array, sort() orders that one in place and slice() copies it again; getCount
\* and getAllFeatures only read
HeldAfter(call, fs) == fs

\* the rest of the call after `await this._ensureLoaded()`
EptResume(c) ==
  /\ calls[c].pc = "ready"
  /\ SetCall(c, [calls[c] EXCEPT !.pc = "done",
       !.result = IF calls[c].gotOk THEN EptResult(calls[c], calls[c].got)
                  ELSE EptRejection(calls[c], calls[c].gotError)])
  /\ features' = [features EXCEPT ![calls[c].s] =
       IF calls[c].gotOk /\ @ = Some(calls[c].got)
       THEN Some(HeldAfter(calls[c], calls[c].got)) ELSE @]
  /\ UNCHANGED <<now, localStorage, storageFaults, loadPromise, loadTask,
                 fetchCount, writeCount, loadLog, lastSaved, clearCacheThrew>>
  /\ UNCHANGED <<stacVars, ctlVars>>

\* clearCache
ClearCache(s) ==
  LET threw == "removeItem" \in storageFaults /\ ~Catches("clearCache")
  IN  /\ localStorage' = IF "removeItem" \in storageFaults THEN localStorage ELSE None
      /\ features' = IF threw THEN features ELSE [features EXCEPT ![s] = None]
      /\ clearCacheThrew' = (clearCacheThrew \/ threw)
      /\ UNCHANGED <<now, storageFaults, loadPromise, loadTask, calls, fetchCount,
                     writeCount, loadLog, lastSaved>>
      /\ UNCHANGED <<stacVars, ctlVars>>

\* time passes
Tick ==
  /\ now < MaxTime
  /\ now' = now + 1
  /\ UNCHANGED <<localStorage, storageFaults, features, loadPromise, loadTask, calls,
                 fetchCount, writeCount, loadLog, lastSaved, clearCacheThrew>>
  /\ UNCHANGED <<stacVars, ctlVars>>

EptNext(s) ==
  \/ \E c \in CallIds, bbox \in QueryBoxes, limit \in QueryLimits :
       EptCall(s, c, "searchByExtent", bbox, limit)
  \/ \E c \in CallIds, op \in {"getAllFeatures", "getCount"} :
       EptCall(s, c, op, <<0, 0, 0, 0>>, 0)
  \/ \E outcome \in FetchOutcomes : FetchSettles(s, outcome)
  \/ \E outcome \in BodyOutcomes : BodySettles(s, outcome)
  \/ LoadSettles(s)
  \/ \E c \in CallIds : calls[c].s = s /\ EptResume(c)
  \/ ClearCache(s)

(***************************************************************************)
(* StacSearcher.  Strings that the code takes apart or puts together are   *)
(* sequences of pieces; a "?" in a URL is a piece of its own.              *)
(***************************************************************************)
StacUrl == "https://planetarycomputer.microsoft.com/api/stac/v1"
SasUrl == "https://planetarycomputer.microsoft.com/api/sas/v1"
Collection == "3dep-lidar-copc"

\* String.prototype.includes
Includes(str, piece) == \E i \in 1..Len(str) : str[i] = piece

\* a STAC item: its id and its assets.data (href is empty when there is none)
StacItem(id, hasData, href) == [id |-> id, hasData |-> hasData, href |-> href]

Items ==
  {StacItem("item-1", TRUE, <<"https://host/f.copc.laz">>),
   StacItem("item-2", TRUE, <<"https://host/g.copc.laz", "?", "v=1">>),
   StacItem("item-3", FALSE, <<>>)}

\* the tokens the token endpoint hands out, and how long each lives (minutes)
Tokens == {<<"sig=a">>, <<"sig=b">>}
TokenLifetimes == {5, 7}

\* bufferMs of _getSasToken, in minutes
BufferMs == 5

Resolved(v) == [status |-> "resolved", value |-> v]
Rejected(m) == [status |-> "rejected", value |-> m]
NotSettled == [status |-> "none", value |-> <<>>]

IdleCopcCall ==
  [item |-> StacItem("", FALSE, <<>>), pc |-> "idle", requested |-> 0,
   outcome |-> "none", token |-> <<>>, result |-> NotSettled]

\* getCopcUrl without the test of item.assets.data
HasDataAssetUnchecked(item) == TRUE

\* item.assets.data is present
HasDataAsset(item) == item.hasData

\* a validity test without the buffer
TokenValidNoBuffer == cachedToken # None /\ cachedToken[1].expiry > now

\* the cached token is still good for more than the buffer
TokenValid == cachedToken # None /\ cachedToken[1].expiry - BufferMs > now

\* a separator that ignores the query string the href already has
SeparatorAlwaysQuery(href) == "?"

Separator(href) == IF Includes(href, "?") THEN "&" ELSE "?"

\* a URL signed with a token the endpoint never issued
SignedUrlStale(href, token) == href \o <<Separator(href)>> \o <<"sig=stale">>

\* `${asset.href}${separator}${token}`
SignedUrl(href, token) == href \o <<Separator(href)>> \o token

\* the error of getCopcUrl for an item without a data asset
NoAssetError(item) == Rejected(<<"No data asset found for item ", item.id>>)

\* getCopcUrl without its catch block
SigningFailureRethrown(item) == Rejected(<<"Failed to get SAS token">>)

\* the catch block of getCopcUrl: the unsigned URL
SigningFallback(item) == Resolved(item.href)

SetCopcCall(c, call) == copcCalls' = [copcCalls EXCEPT ![c] = call]

\* getCopcUrl up to the fetch of _getSasToken (or to its end, when the item has
\* no data asset or the cached token is used)
GetCopcUrlStep(c, item) ==
  LET call == [IdleCopcCall EXCEPT !.item = item]
  IN
  /\ copcCalls[c].pc = "idle"
  /\ \A d \in CallIds : d < c => copcCalls[d].pc # "idle"
  /\ IF ~HasDataAsset(item)
     THEN /\ SetCopcCall(c, [call EXCEPT !.pc = "done", !.result = NoAssetError(item)])
          /\ UNCHANGED tokenFetchCount
     ELSE IF TokenValid
     THEN /\ SetCopcCall(c, [call EXCEPT !.pc = "done",
                 !.result = Resolved(SignedUrl(item.href, cachedToken[1].token))])
          /\ UNCHANGED tokenFetchCount
     ELSE /\ SetCopcCall(c, [call EXCEPT !.pc = "fetching", !.requested = 1])
          /\ tokenFetchCount' = tokenFetchCount + 1
  /\ UNCHANGED <<cachedToken, searchCall, now, eptState>>

\* a getCopcUrl call made by a caller other than the control
GetCopcUrl(c, item) ==
  /\ GetCopcUrlStep(c, item)
  /\ UNCHANGED ctlVars

\* _getSasToken from the settling of fetch(tokenUrl) to `await response.json()`,
\* or through the catch block of getCopcUrl when it throws
TokenFetchSettles(c, outcome) ==
  /\ copcCalls[c].pc = "fetching"
  /\ SetCopcCall(c,
       IF outcome = "ok" THEN [copcCalls[c] EXCEPT !.pc = "reading"]
       ELSE [copcCalls[c] EXCEPT !.pc = "done", !.outcome = outcome,
                                 !.result = SigningFallback(copcCalls[c].item)])
  /\ UNCHANGED <<cachedToken, tokenFetchCount, searchCall, now, eptState, ctlVars>>

\* _getSasToken from the settling of response.json() to the end of getCopcUrl
TokenBodySettles(c, outcome, token, lifetime) ==
  /\ copcCalls[c].pc = "reading"
  /\ IF outcome = "ok"
     THEN /\ cachedToken' = Some([token |-> token, expiry |-> now + lifetime])
          /\ SetCopcCall(c, [copcCalls[c] EXCEPT !.pc = "done", !.outcome = "ok",
               !.token = token,
               !.result = Resolved(SignedUrl(copcCalls[c].item.href, token))])
     ELSE /\ SetCopcCall(c, [copcCalls[c] EXCEPT !.pc = "done", !.outcome = outcome,
               !.result = SigningFallback(copcCalls[c].item)])
          /\ UNCHANGED cachedToken
  /\ UNCHANGED <<tokenFetchCount, searchCall, now, eptState, ctlVars>>

CopcNext ==
  \/ \E c \in CallIds, item \in Items : GetCopcUrl(c, item)
  \/ \E c \in CallIds, outcome \in {"ok", "httpError", "networkError"} :
       TokenFetchSettles(c, outcome)
  \/ \E c \in CallIds, token \in Tokens, lifetime \in TokenLifetimes :
       TokenBodySettles(c, "ok", token, lifetime)
  \/ \E c \in CallIds : TokenBodySettles(c, "unreadable", <<>>, 0)

(***************************************************************************)
(* StacSearcher: search and the operations built on it.                    *)
(***************************************************************************)
\* safeValue without the Number.isFinite test
SafeValueUnchecked(val, defaultVal, min, max) == MathMax(min, MathMin(max, val))

\* safeValue wrapping an out-of-range value to the other end of the range
SafeValueWrapping(val, defaultVal, min, max) ==
  IF ~IsFinite(val) THEN defaultVal
  ELSE IF val > max THEN min ELSE IF val < min THEN max ELSE val

\* safeValue of _validateBbox
SafeValue(val, defaultVal, min, max) ==
  IF ~IsFinite(val) THEN defaultVal ELSE MathMax(min, MathMin(max, val))

\* _validateBbox
ValidateBbox(bbox) ==
  <<SafeValue(bbox[1], -180, -180, 180), SafeValue(bbox[2], -90, -90, 90),
    SafeValue(bbox[3], 180, -180, 180), SafeValue(bbox[4], 90, -90, 90)>>

\* a search that sends the limit as given
CapLimitUncapped(limit) == limit

\* the limit as search sends it
CapLimit(limit) ==
  IF limit # None /\ JsGt(limit[1], 1000) THEN Some(1000) ELSE limit

\* JSON.stringify of the body search builds from params
SearchBody(params) ==
  [collections |-> <<Collection>>,
   bbox |-> IF params.bbox = None THEN None
            ELSE Some([k \in 1..4 |-> JsonNumber(ValidateBbox(params.bbox[1])[k])]),
   limit |-> IF CapLimit(params.limit) = None THEN None
             ELSE Some(JsonNumber(CapLimit(params.limit)[1]))]

SearchRequest(params) ==
  [url |-> <<StacUrl, "/search">>, method |-> "POST", body |-> Some(SearchBody(params))]

NextPageRequest(href) == [url |-> <<href>>, method |-> "POST", body |-> None]

\* the pages the catalog answers with
Page(fs, next, numberMatched, matched) ==
  [features |-> fs, next |-> next, numberMatched |-> numberMatched, matched |-> matched]

NoPage == Page(<<>>, None, None, None)

Pages ==
  {Page(<<"i1", "i2">>, Some("next-1"), Some(5), None),
   Page(<<"i3">>, None, None, Some(7)),
   Page(<<>>, Some("next-2"), None, None),
   Page(<<>>, None, Some(0), Some(7))}

\* what a request can come back with
OkResponse(page) ==
  [kind |-> "ok", page |-> page, status |-> "200", statusText |-> "OK",
   readable |-> TRUE, body |-> ""]
HttpError(status, statusText, readable) ==
  [kind |-> "httpError", page |-> NoPage, status |-> status, statusText |-> statusText,
   readable |-> readable, body |-> "detail"]
NetworkError == [OkResponse(NoPage) EXCEPT !.kind = "networkError", !.status = ""]
InvalidJson == [OkResponse(NoPage) EXCEPT !.kind = "invalidJson"]
NoResponse == [OkResponse(NoPage) EXCEPT !.kind = "none", !.status = ""]

Responses ==
  {OkResponse(page) : page \in Pages}
    \cup {HttpError("500", "Internal Server Error", r) : r \in BOOLEAN}
    \cup {HttpError("400", "Bad Request", r) : r \in BOOLEAN}
    \cup {NetworkError, InvalidJson}

\* what a call returns
NoOutcome ==
  [status |-> "none", kind |-> "none", page |-> NoPage, count |-> 0, items |-> <<>>,
   message |-> <<>>]
ResolvedPage(page) == [NoOutcome EXCEPT !.status = "resolved", !.kind = "page", !.page = page]
ResolvedNull == [NoOutcome EXCEPT !.status = "resolved", !.kind = "null"]
ResolvedCount(n) == [NoOutcome EXCEPT !.status = "resolved", !.kind = "count", !.count = n]
ResolvedItems(items) ==
  [NoOutcome EXCEPT !.status = "resolved", !.kind = "items", !.items = items]
RejectedWith(message) ==
  [NoOutcome EXCEPT !.status = "rejected", !.kind = "error", !.message = message]

\* a search that answers a failed request with an empty result
SearchFailureSwallowed(response) == ResolvedPage(NoPage)

\* search on a response that is not ok
SearchFailure(response) ==
  RejectedWith(<<"STAC search failed: ", response.status, " ", response.statusText>>
                 \o (IF response.readable THEN <<" - ", response.body>> ELSE <<>>))

\* what fetch or response.json() reject with
TransportFailure(response) ==
  RejectedWith(<<IF response.kind = "networkError" THEN "TypeError" ELSE "SyntaxError">>)

\* a fetchNextPage that answers a failed request with null
NextPageFailureAsNull(response) == ResolvedNull

\* fetchNextPage on a response that is not ok
NextPageFailure(response) == RejectedWith(<<"Failed to fetch next page: ", response.status>>)

\* a count that reads numberMatched only
MatchedCountNumberOnly(page) ==
  IF page.numberMatched # None THEN page.numberMatched[1] ELSE 0

\* response.numberMatched ?? response.context?.matched ?? 0
MatchedCount(page) ==
  IF page.numberMatched # None THEN page.numberMatched[1]
  ELSE IF page.matched # None THEN page.matched[1] ELSE 0

\* a call on the StacSearcher: its arguments, the params object search was
\* given as the caller holds it, the requests it has issued, the pages it has
\* received and its locals (searchAll: response, allItems)
IdleSearchCall ==
  [op |-> "none", bbox |-> None, limit |-> None, maxItems |-> 0, pc |-> "idle",
   params |-> [bbox |-> None, limit |-> None],
   requests |-> <<>>, searchResponse |-> NoResponse, received |-> <<>>,
   page |-> NoPage, items |-> <<>>, result |-> NoOutcome]

\* the default of searchByExtent's limit parameter
DefaultLimit == 50

\* params that leave out the limit of searchByExtent
SearchParamsBoundsOnly(op, bbox, limit) ==
  IF op = "getCount" THEN [bbox |-> bbox, limit |-> Some(0)]
  ELSE IF op = "searchByExtent" THEN [bbox |-> bbox, limit |-> None]
  ELSE [bbox |-> bbox, limit |-> limit]

\* the params each operation hands to search: getCount spreads params and
\* sets limit 0; searchByExtent fills an omitted limit with its default
SearchParams(op, bbox, limit) ==
  IF op = "getCount" THEN [bbox |-> bbox, limit |-> Some(0)]
  ELSE IF op = "searchByExtent"
  THEN [bbox |-> bbox, limit |-> IF limit = None THEN Some(DefaultLimit) ELSE limit]
  ELSE [bbox |-> bbox, limit |-> limit]

\* a search that validates and caps the object it was given
ParamsAfterSearchInPlace(params) ==
  [bbox |-> IF params.bbox = None THEN None ELSE Some(ValidateBbox(params.bbox[1])),
   limit |-> CapLimit(params.limit)]

\* the params object once search has built its request: search assigns to the
\* copy `{ ...params }`, and _validateBbox returns a new array
ParamsAfterSearch(params) == params

\* the call once search has issued its fetch
SearchStarted(op, bbox, limit, maxItems) ==
  [IdleSearchCall EXCEPT !.op = op, !.bbox = bbox, !.limit = limit,
     !.maxItems = maxItems, !.pc = "fetching",
     !.params = ParamsAfterSearch(SearchParams(op, bbox, limit)),
     !.requests = <<SearchRequest(SearchParams(op, bbox, limit))>>]

\* search, searchByExtent, getCount and searchAll up to the fetch of search
Search(op, bbox, limit, maxItems) ==
  /\ searchCall.pc = "idle"
  /\ searchCall' = SearchStarted(op, bbox, limit, maxItems)
  /\ UNCHANGED <<cachedToken, copcCalls, tokenFetchCount, now, eptState, ctlVars>>

\* a searchAll that returns everything it has accumulated
SearchAllReturnUntruncated(call, items, page) ==
  [call EXCEPT !.pc = "done", !.items = items, !.page = page, !.result = ResolvedItems(items)]

\* the return of searchAll: allItems.slice(0, maxItems)
SearchAllReturn(call, items, page) ==
  [call EXCEPT !.pc = "done", !.items = items, !.page = page,
               !.result = ResolvedItems(SubSeq(items, 1,
                  IF call.maxItems < Len(items) THEN call.maxItems ELSE Len(items)))]

\* a loop that follows next links whatever it has accumulated
SearchAllLoopUncounted(call, items, page) ==
  IF page.next # None
  THEN [call EXCEPT !.pc = "paging", !.items = items, !.page = page,
                    !.requests = Append(@, NextPageRequest(page.next[1]))]
  ELSE SearchAllReturn(call, items, page)

\* the loop of searchAll from its test to the fetch of fetchNextPage, or to its return
SearchAllLoop(call, items, page) ==
  IF Len(items) < call.maxItems /\ page.next # None
  THEN [call EXCEPT !.pc = "paging", !.items = items, !.page = page,
                    !.requests = Append(@, NextPageRequest(page.next[1]))]
  ELSE SearchAllReturn(call, items, page)

\* the call once the fetch of search has settled with `response`: search
\* returns or throws, and the caller's code that follows runs
SearchSettled(started, response) ==
  LET call == [started EXCEPT !.searchResponse = response,
                 !.received = IF response.kind = "ok" THEN <<response.page>> ELSE <<>>]
      failed == [call EXCEPT !.pc = "done"]
  IN  IF response.kind = "httpError"
      THEN [failed EXCEPT !.result = SearchFailure(response)]
      ELSE IF response.kind # "ok"
      THEN [failed EXCEPT !.result = TransportFailure(response)]
      ELSE IF call.op = "getCount"
      THEN [call EXCEPT !.pc = "done", !.page = response.page,
                        !.result = ResolvedCount(MatchedCount(response.page))]
      ELSE IF call.op = "searchAll"
      THEN SearchAllLoop(call, response.page.features, response.page)
      ELSE [call EXCEPT !.pc = "done", !.page = response.page,
                        !.result = ResolvedPage(response.page)]

\* search from the settling of its fetch to its return or throw, and the
\* caller's code that follows
SearchSettles(response) ==
  /\ searchCall.pc = "fetching"
  /\ searchCall' = SearchSettled(searchCall, response)
  /\ UNCHANGED <<cachedToken, copcCalls, tokenFetchCount, now, eptState, ctlVars>>

\* fetchNextPage up to its fetch, or to its return when there is no next link
FetchNextPage(given) ==
  /\ searchCall.pc = "idle"
  /\ searchCall' =
       IF given.next = None
       THEN [IdleSearchCall EXCEPT !.op = "fetchNextPage", !.page = given, !.pc = "done",
                                   !.result = ResolvedNull]
       ELSE [IdleSearchCall EXCEPT !.op = "fetchNextPage", !.page = given, !.pc = "paging",
                                   !.requests = <<NextPageRequest(given.next[1])>>]
  /\ UNCHANGED <<cachedToken, copcCalls, tokenFetchCount, now, eptState, ctlVars>>

\* fetchNextPage from the settling of its fetch to its return or throw, and the
\* loop of searchAll that follows
NextPageSettles(response) ==
  /\ searchCall.pc = "paging"
  /\ LET failed == [searchCall EXCEPT !.pc = "done"]
         call == [searchCall EXCEPT !.received = Append(@, response.page)]
     IN  searchCall' =
           IF response.kind = "httpError"
           THEN [failed EXCEPT !.result = NextPageFailure(response)]
           ELSE IF response.kind # "ok"
           THEN [failed EXCEPT !.result = TransportFailure(response)]
           ELSE IF searchCall.op = "fetchNextPage"
           THEN [call EXCEPT !.pc = "done", !.result = ResolvedPage(response.page)]
           ELSE IF response.page.features = <<>>
           THEN SearchAllReturn(call, call.items, call.page)
           ELSE SearchAllLoop(call, call.items \o response.page.features, response.page)
  /\ UNCHANGED <<cachedToken, copcCalls, tokenFetchCount, now, eptState, ctlVars>>

\* the caller takes the result; the searcher keeps nothing of the call
SearchReturns ==
  /\ searchCall.pc = "done"
  /\ searchCall' = IdleSearchCall
  /\ UNCHANGED <<cachedToken, copcCalls, tokenFetchCount, now, eptState, ctlVars>>

\* the bbox components callers pass
LonValues == {NaN, Infinity, NegInfinity, -181, -180, -10, 10, 180, 181}
LatValues == {NaN, Infinity, NegInfinity, -91, -90, -5, 5, 90, 91}
AllBoxes == {<<w, s, e, n>> : w \in LonValues, s \in LatValues, e \in LonValues, n \in LatValues}
ValidBox == <<-123, 44, -122, 45>>
SomeBoxes == {ValidBox, <<10, 5, -10, -5>>, <<NaN, -91, 181, Infinity>>}
Limits == {None, Some(0), Some(10), Some(1000), Some(1001)}

SearchNext ==
  \/ /\ searchCall.pc = "idle"
     /\ \/ \E bbox \in AllBoxes : Search("search", Some(bbox), None, 0)
        \/ \E bbox \in {None, Some(ValidBox)}, limit \in Limits :
             Search("search", bbox, limit, 0)
        \/ \E bbox \in SomeBoxes, limit \in {None, Some(25), Some(2000)} :
             Search("searchByExtent", Some(bbox), limit, 0)
        \/ \E bbox \in {None} \cup {Some(b) : b \in SomeBoxes}, limit \in {None, Some(10)} :
             Search("getCount", bbox, limit, 0)
        \/ \E bbox \in {None} \cup {Some(b) : b \in SomeBoxes}, maxItems \in {0, 1, 3} :
             Search("searchAll", bbox, Some(10), maxItems)
        \/ \E given \in Pages : FetchNextPage(given)
  \/ \E response \in Responses : SearchSettles(response)
  \/ \E response \in Responses : NextPageSettles(response)
  \/ SearchReturns

\* the StacSearcher as constructed
StacStart ==
  /\ cachedToken = None
  /\ copcCalls = [c \in CallIds |-> IdleCopcCall]
  /\ tokenFetchCount = 0
  /\ searchCall = IdleSearchCall

(***************************************************************************)
(* The converters to the unified item, and the items of the catalog.       *)
(***************************************************************************)
\* the STAC item the catalog returns under each feature name of a page: its
\* id (prefix and rest), a bbox of 4 or 6 numbers, the two point-count
\* properties, datetime, and the data asset
CatalogItem(name) ==
  IF name = "i1"
  THEN [id |-> <<"USGS_LPC_", "i1">>, bbox |-> <<-123, 44, -122, 45>>,
        geometry |-> Polygon(-123, 44, -122, 45),
        pcCount |-> Some(7), pointcloudCount |-> Some(8), datetime |-> Some("2020-01-01"),
        hasData |-> TRUE, href |-> <<"https://host/f.copc.laz">>]
  ELSE IF name = "i2"
  THEN [id |-> <<"3DEP_", "i2">>, bbox |-> <<-123, 44, 10, -122, 45, 20>>,
        geometry |-> Polygon(-123, 44, -122, 45),
        pcCount |-> None, pointcloudCount |-> Some(0), datetime |-> None,
        hasData |-> TRUE, href |-> <<"https://host/g.copc.laz", "?", "v=1">>]
  ELSE IF name = "i4"
  THEN [id |-> <<"i4">>, bbox |-> <<0, 0, 1, 1>>,
        geometry |-> Polygon(0, 0, 1, 1),
        pcCount |-> Some(0), pointcloudCount |-> Some(8), datetime |-> None,
        hasData |-> TRUE, href |-> <<"https://host/h.copc.laz">>]
  ELSE IF name = "i5"
  THEN [id |-> <<"i5">>, bbox |-> <<0, 0, 1, 1>>,
        geometry |-> Polygon(0, 0, 1, 1),
        pcCount |-> Some(JsonNull), pointcloudCount |-> Some(3), datetime |-> None,
        hasData |-> TRUE, href |-> <<"https://host/k.copc.laz">>]
  ELSE [id |-> <<name>>, bbox |-> <<0, 0, 1, 1>>,
        geometry |-> GeometryCollection,
        pcCount |-> None, pointcloudCount |-> None, datetime |-> None,
        hasData |-> FALSE, href |-> <<>>]

\* a || b: a left operand of 0 gives way as well
CoalesceFalsy(a, b) == IF a # None /\ a # Some(JsonNull) /\ a # Some(0) THEN a ELSE b

\* a ?? b: the left operand unless it is undefined or null
Coalesce(a, b) == IF a # None /\ a # Some(JsonNull) THEN a ELSE b

\* str.replace(/^prefix/, '')
StripPrefix(str, prefix) == IF str # <<>> /\ str[1] = prefix THEN Tail(str) ELSE str

\* the bbox stacToUnified gives the unified item
Bbox4(bbox) ==
  IF Len(bbox) = 6 THEN <<bbox[1], bbox[2], bbox[4], bbox[5]>> ELSE bbox

\* a stacToUnified that hands on a copy of the item with the normalized bbox
OriginalOfNormalized(item) == [item EXCEPT !.bbox = Bbox4(item.bbox)]

\* originalItem of stacToUnified: the item it was given
OriginalOf(item) == item

\* the item as stacToUnified leaves it: the function assigns to none of its properties
AfterStacToUnified(item) == item

\* stacToUnified
StacToUnified(item) ==
  [id |-> item.id, geometry |-> item.geometry, bbox |-> Bbox4(item.bbox),
   name |-> StripPrefix(StripPrefix(item.id, "USGS_LPC_"), "3DEP_"),
   pointCount |-> Coalesce(item.pcCount, item.pointcloudCount),
   datetime |-> item.datetime, url |-> None,
   sourceType |-> "copc", originalItem |-> OriginalOf(item)]

\* getBboxFromGeometry
GetBboxFromGeometry(geometry) ==
  LET seed == <<Infinity, Infinity, NegInfinity, NegInfinity>>
  IN  IF geometry.hasCoordinates THEN Traverse(geometry.coordinates, seed) ELSE seed

\* an eptToUnified that tags its items as catalog items
EptToUnifiedTaggedCopc(feature) ==
  [id |-> <<feature.name>>, geometry |-> feature.geometry,
   bbox |-> IF feature.bbox # None THEN feature.bbox
            ELSE GetBboxFromGeometry(feature.geometry),
   name |-> <<feature.name>>, pointCount |-> Some(feature.count),
   datetime |-> None, url |-> Some(feature.url),
   sourceType |-> "copc", originalItem |-> feature]

\* eptToUnified
EptToUnified(feature) ==
  [id |-> <<feature.name>>, geometry |-> feature.geometry,
   bbox |-> IF feature.bbox # None THEN feature.bbox
            ELSE GetBboxFromGeometry(feature.geometry),
   name |-> <<feature.name>>, pointCount |-> Some(feature.count),
   datetime |-> None, url |-> Some(feature.url),
   sourceType |-> "ept", originalItem |-> feature]

(***************************************************************************)
(* UsgsLidarControl: searchByBbox and setDataSource.  The footprint layer  *)
(* and the panel are outside the model.                                    *)
(***************************************************************************)
MaxSearches == 2
SearchIds == 1..MaxSearches

\* DEFAULT_OPTIONS.maxResults and DEFAULT_OPTIONS.defaultDataSource
MaxResults == 50
DefaultDataSource == "ept"

\* the bboxes searchByBbox is called with
ControlBoxes == {<<0, 0, 1, 1>>, <<3, 3, 4, 4>>}

NoSearchResult == [status |-> "none", items |-> <<>>, error |-> <<>>]

IdleControlSearch ==
  [pc |-> "idle", branch |-> "none", bbox |-> <<0, 0, 0, 0>>, stac |-> IdleSearchCall,
   eptCall |-> 0, response |-> <<>>, result |-> NoSearchResult]

\* a loadItem call: the item, the getCopcUrl call it awaits, the url it hands to
\* loadPointCloud, the events it emits and the id it enters in loadedItems
IdleLoad ==
  [pc |-> "idle", item |-> <<>>, copc |-> 0, url |-> None, events |-> <<>>,
   loaded |-> None, result |-> "none"]

\* no geometry has been handed to the bbox functions
NoBboxCall ==
  [pc |-> "idle", geometry |-> GeometryCollection, fromGeometry |-> <<>>, computed |-> <<>>]

\* the control as constructed
CtlStart ==
  /\ ctlInitialized = FALSE
  /\ ctlState = [dataSource |-> DefaultDataSource, isSearching |-> FALSE,
                 searchError |-> None, searchResults |-> <<>>, totalMatched |-> None]
  /\ ctlSearches = [k \in SearchIds |-> IdleControlSearch]
  /\ ctlEvents = <<>>
  /\ ctlLoads = [k \in CallIds |-> IdleLoad]
  /\ bboxCall = NoBboxCall

\* the data of an emitted event: its type, the search that emitted it and the
\* state handed to the handlers
ControlEvent(type, k, state) == [type |-> type, search |-> k, state |-> state]

\* _initComponents has run (onAdd, or the style.load handler)
ControlInit ==
  /\ ~ctlInitialized
  /\ ctlInitialized' = TRUE
  /\ UNCHANGED <<bboxCall, ctlState, ctlSearches, ctlEvents, ctlLoads, now, eptState, stacVars>>

\* searchByBbox from its first setState to the await of the searcher's
\* searchByExtent, with that searchByExtent up to its first await
StartSearch(k, bbox) ==
  LET state == [ctlState EXCEPT !.isSearching = TRUE, !.searchError = None,
                                !.searchResults = <<>>]
      search == [IdleControlSearch EXCEPT !.pc = "waiting", !.bbox = bbox]
  IN  /\ ctlState' = state
      /\ ctlEvents' = Append(ctlEvents, ControlEvent("searchstart", k, state))
      /\ IF ctlState.dataSource = "copc"
         THEN /\ ctlSearches' = [ctlSearches EXCEPT ![k] =
                   [search EXCEPT !.branch = "copc",
                      !.stac = SearchStarted("searchByExtent", Some(bbox), Some(MaxResults), 0)]]
              /\ UNCHANGED eptState
         ELSE \E c \in CallIds :
                /\ EptCallStep(1, c, "searchByExtent", bbox, MaxResults)
                /\ ctlSearches' = [ctlSearches EXCEPT ![k] =
                     [search EXCEPT !.branch = "ept", !.eptCall = c]]
      /\ UNCHANGED <<bboxCall, ctlInitialized, ctlLoads, now, stacVars>>

\* searchByBbox is called: it starts at once when the control is initialized,
\* and waits for _waitForInit otherwise
SearchByBbox(k, bbox) ==
  /\ ctlSearches[k].pc = "idle"
  /\ \A j \in SearchIds : j < k => ctlSearches[j].pc # "idle"
  /\ IF ctlInitialized
     THEN StartSearch(k, bbox)
     ELSE /\ ctlSearches' = [ctlSearches EXCEPT ![k] =
               [IdleControlSearch EXCEPT !.pc = "initwait", !.bbox = bbox]]
          /\ UNCHANGED <<bboxCall, ctlInitialized, ctlState, ctlEvents, ctlLoads, now, eptState, stacVars>>

\* _waitForInit resolves (initialized, or given up waiting) and searchByBbox goes on
SearchByBboxProceeds(k) ==
  /\ ctlSearches[k].pc = "initwait"
  /\ StartSearch(k, ctlSearches[k].bbox)

\* a total that is always the number of items returned
TotalMatchedFromItems(page, items) == Len(items)

\* response.numberMatched ?? response.context?.matched ?? items.length
TotalMatched(page, items) ==
  Coalesce(page.numberMatched, Coalesce(page.matched, Some(Len(items))))[1]

\* the try block of searchByBbox after the searcher has answered
SearchCompletes(k, search, items, totalMatched) ==
  LET state == [ctlState EXCEPT !.isSearching = FALSE, !.searchResults = items,
                                !.totalMatched = Some(totalMatched)]
  IN  /\ ctlState' = state
      /\ ctlEvents' = Append(ctlEvents, ControlEvent("searchcomplete", k, state))
      /\ ctlSearches' = [ctlSearches EXCEPT ![k] =
           [search EXCEPT !.pc = "done",
              !.result = [status |-> "resolved", items |-> items, error |-> <<>>]]]

\* a catch block that records the error and leaves isSearching as it is
SearchFailsStillSearching(k, search, message) ==
  LET state == [ctlState EXCEPT !.searchError = Some(message)]
  IN  /\ ctlState' = state
      /\ ctlEvents' = Append(ctlEvents, ControlEvent("searcherror", k, state))
      /\ ctlSearches' = [ctlSearches EXCEPT ![k] =
           [search EXCEPT !.pc = "done",
              !.result = [status |-> "rejected", items |-> <<>>, error |-> message]]]

\* the catch block of searchByBbox
SearchFails(k, search, message) ==
  LET state == [ctlState EXCEPT !.isSearching = FALSE, !.searchError = Some(message)]
  IN  /\ ctlState' = state
      /\ ctlEvents' = Append(ctlEvents, ControlEvent("searcherror", k, state))
      /\ ctlSearches' = [ctlSearches EXCEPT ![k] =
           [search EXCEPT !.pc = "done",
              !.result = [status |-> "rejected", items |-> <<>>, error |-> message]]]

\* the fetch of the StacSearcher's search settles: searchByExtent returns or
\* throws, and searchByBbox runs to its end
StacSearchSettles(k, response) ==
  /\ ctlSearches[k].pc = "waiting" /\ ctlSearches[k].branch = "copc"
  /\ LET stac == SearchSettled(ctlSearches[k].stac, response)
         page == stac.result.page
         given == [i \in 1..Len(page.features) |-> CatalogItem(page.features[i])]
         items == [i \in 1..Len(given) |-> StacToUnified(given[i])]
         search == [ctlSearches[k] EXCEPT !.stac = stac,
                      !.response = [i \in 1..Len(given) |-> AfterStacToUnified(given[i])]]
     IN  IF stac.result.status = "resolved"
         THEN SearchCompletes(k, search, items, TotalMatched(page, items))
         ELSE SearchFails(k, search, stac.result.message)
  /\ UNCHANGED <<bboxCall, ctlInitialized, ctlLoads, now, eptState, stacVars>>

\* the EptSearcher's searchByExtent has returned or thrown, and searchByBbox
\* runs to its end
EptSearchSettles(k) ==
  /\ ctlSearches[k].pc = "waiting" /\ ctlSearches[k].branch = "ept"
  /\ calls[ctlSearches[k].eptCall].pc = "done"
  /\ LET response == calls[ctlSearches[k].eptCall].result
         items == [i \in 1..Len(response.features) |-> EptToUnified(response.features[i])]
         search == [ctlSearches[k] EXCEPT !.response = response.features]
     IN  IF response.status = "resolved"
         THEN SearchCompletes(k, search, items, response.numberMatched)
         ELSE SearchFails(k, search, <<response.error>>)
  /\ UNCHANGED <<bboxCall, ctlInitialized, ctlLoads, now, eptState, stacVars>>

\* setDataSource, with the clearResults it calls
SetDataSource(source) ==
  /\ ctlState.dataSource # source
  /\ ctlState' = [ctlState EXCEPT !.searchResults = <<>>, !.totalMatched = None,
                                  !.dataSource = source]
  /\ UNCHANGED <<bboxCall, ctlInitialized, ctlSearches, ctlEvents, ctlLoads, now, eptState, stacVars>>

ControlNext ==
  \/ ControlInit
  \/ \E k \in SearchIds, bbox \in ControlBoxes : SearchByBbox(k, bbox)
  \/ \E k \in SearchIds : SearchByBboxProceeds(k)
  \/ \E k \in SearchIds, response \in Responses : StacSearchSettles(k, response)
  \/ \E outcome \in FetchOutcomes : FetchSettles(1, outcome)
  \/ \E outcome \in BodyOutcomes : BodySettles(1, outcome)
  \/ LoadSettles(1)
  \/ \E c \in CallIds : EptResume(c)
  \/ \E k \in SearchIds : EptSearchSettles(k)
  \/ \E source \in {"copc", "ept"} : SetDataSource(source)


(***************************************************************************)
(* UsgsLidarControl: loadItem.  LidarControl.loadPointCloud is outside the *)
(* model: it resolves or rejects.                                          *)
(***************************************************************************)
\* the unified items loadItem is called with: results of the two converters,
\* and items whose url member a caller has set itself
LoadableNames == {"i1", "i2", "i3", "i4", "i5", "i1+url", "a", "c", "a~url"}

LoadableItem(n) ==
  IF n \in {"i1", "i2", "i3", "i4", "i5"} THEN StacToUnified(CatalogItem(n))
  ELSE IF n = "i1+url"
  THEN [StacToUnified(CatalogItem("i1")) EXCEPT !.url = Some("ept/a")]
  ELSE IF n = "a~url"
  THEN [EptToUnified(ToEptFeatures(BoundaryFile("urlA"))[1]) EXCEPT !.url = Some("ept/other")]
  ELSE EptToUnified(ToEptFeatures(BoundaryFile("urlA"))[IF n = "a" THEN 1 ELSE 3])

SetLoad(k, load) == ctlLoads' = [ctlLoads EXCEPT ![k] = load]

\* item.sourceType === 'copc'
RoutedToCatalog(item) == item.sourceType = "copc"

\* a direct url read from the unified item instead of its feature
DirectUrlOfUnified(item) == item.url[1]

\* (item.originalItem as EptFeature).properties.url
DirectUrl(item) == item.originalItem.url

\* loadItem from `this._emit('loadstart')` to its await of getCopcUrl (with
\* that getCopcUrl up to its first await) or of loadPointCloud
StartLoad(k, item) ==
  LET load == [IdleLoad EXCEPT !.item = item, !.events = <<"loadstart">>]
  IN  IF RoutedToCatalog(item)
      THEN \E c \in CallIds :
             /\ GetCopcUrlStep(c, item.originalItem)
             /\ SetLoad(k, [load EXCEPT !.pc = "signing", !.copc = c])
             /\ UNCHANGED <<bboxCall, ctlInitialized, ctlState, ctlSearches, ctlEvents>>
      ELSE /\ SetLoad(k, [load EXCEPT !.pc = "loading", !.url = Some(DirectUrl(item))])
           /\ UNCHANGED <<bboxCall, ctlInitialized, ctlState, ctlSearches, ctlEvents, now, eptState,
                          stacVars>>

\* loadItem is called: it starts at once when the control is initialized, and
\* waits for _waitForInit otherwise
LoadItem(k, item) ==
  /\ ctlLoads[k].pc = "idle"
  /\ \A j \in CallIds : j < k => ctlLoads[j].pc # "idle"
  /\ IF ctlInitialized
     THEN StartLoad(k, item)
     ELSE /\ SetLoad(k, [IdleLoad EXCEPT !.pc = "initwait", !.item = item])
          /\ UNCHANGED <<bboxCall, ctlInitialized, ctlState, ctlSearches, ctlEvents, now, eptState,
                         stacVars>>

\* _waitForInit resolves: loadItem goes on when the control is initialized, and
\* throws 'LiDAR control not available' when the wait was given up
LoadItemProceeds(k) ==
  /\ ctlLoads[k].pc = "initwait"
  /\ IF ctlInitialized
     THEN StartLoad(k, ctlLoads[k].item)
     ELSE /\ SetLoad(k, [ctlLoads[k] EXCEPT !.pc = "done", !.result = "rejected"])
          /\ UNCHANGED <<bboxCall, ctlInitialized, ctlState, ctlSearches, ctlEvents, now, eptState,
                         stacVars>>

\* loadItem from the settling of getCopcUrl to its await of loadPointCloud, or
\* through its catch block when getCopcUrl has thrown
LoadItemSigned(k) ==
  /\ ctlLoads[k].pc = "signing"
  /\ copcCalls[ctlLoads[k].copc].pc = "done"
  /\ LET r == copcCalls[ctlLoads[k].copc].result
     IN  SetLoad(k, IF r.status = "resolved"
                    THEN [ctlLoads[k] EXCEPT !.pc = "loading", !.url = Some(r.value)]
                    ELSE [ctlLoads[k] EXCEPT !.pc = "done", !.result = "rejected",
                                             !.events = Append(@, "loaderror")])
  /\ UNCHANGED <<bboxCall, ctlInitialized, ctlState, ctlSearches, ctlEvents, now, eptState, stacVars>>

\* loadItem from the settling of loadPointCloud to its end
LoadPointCloudSettles(k, ok) ==
  /\ ctlLoads[k].pc = "loading"
  /\ SetLoad(k, IF ok
                THEN [ctlLoads[k] EXCEPT !.pc = "done", !.result = "resolved",
                        !.loaded = Some(ctlLoads[k].item.id),
                        !.events = Append(@, "loadcomplete")]
                ELSE [ctlLoads[k] EXCEPT !.pc = "done", !.result = "rejected",
                        !.events = Append(@, "loaderror")])
  /\ UNCHANGED <<bboxCall, ctlInitialized, ctlState, ctlSearches, ctlEvents, now, eptState, stacVars>>

LoadItemNext ==
  \/ ControlInit
  \/ \E k \in CallIds, n \in LoadableNames : LoadItem(k, LoadableItem(n))
  \/ \E k \in CallIds : LoadItemProceeds(k)
  \/ \E c \in CallIds, outcome \in {"ok", "httpError", "networkError"} :
       TokenFetchSettles(c, outcome)
  \/ \E c \in CallIds, token \in Tokens, lifetime \in TokenLifetimes :
       TokenBodySettles(c, "ok", token, lifetime)
  \/ \E c \in CallIds : TokenBodySettles(c, "unreadable", <<>>, 0)
  \/ \E k \in CallIds : LoadItemSigned(k)
  \/ \E k \in CallIds, ok \in BOOLEAN : LoadPointCloudSettles(k, ok)


(***************************************************************************)
(* getBboxFromGeometry and EptSearcher._computeBbox on geometries of every *)
(* nesting depth.                                                          *)
(***************************************************************************)
\* the coordinate values of the geometries
Ordinates == {-1, 0, 2}
Positions == {Position(x, y) : x, y \in Ordinates}
Boxes == {PolygonCoords(-1, -1, 0, 0), PolygonCoords(0, -1, 2, 2), PolygonCoords(-1, 0, 2, 2)}

\* a geometry of the given type with the given coordinates member
Geometry(type, coords) == [type |-> type, hasCoordinates |-> TRUE, coordinates |-> coords]

\* Point, LineString, Polygon and MultiPolygon geometries (coordinates nested
\* 0 to 3 deep), geometries whose coordinates hold no position, and a
\* geometry without a coordinates member
Geometries ==
  {Geometry("Point", p) : p \in Positions}
    \cup {Geometry("LineString", CoordArray(<<p, q>>)) : p, q \in Positions}
    \cup {Geometry("Polygon", b) : b \in Boxes}
    \cup {Geometry("MultiPolygon", CoordArray(<<b, c>>)) : b, c \in Boxes}
    \cup {Geometry("Polygon", CoordArray(<<>>)),
          Geometry("MultiPolygon", CoordArray(<<CoordArray(<<>>), CoordArray(<<>>)>>)),
          GeometryCollection}

\* both functions are called on geometry g
BboxOf(g) ==
  /\ bboxCall.pc = "idle"
  /\ bboxCall' = [pc |-> "done", geometry |-> g,
                  fromGeometry |-> GetBboxFromGeometry(g), computed |-> ComputeBbox(g)]
  /\ UNCHANGED <<ctlInitialized, ctlState, ctlSearches, ctlEvents, ctlLoads, now, eptState,
                 stacVars>>


(***************************************************************************)
(* Specifications.                                                         *)
(***************************************************************************)
\* one EptSearcher in a browser session that may have left an entry in
\* localStorage and in which some localStorage methods may throw, under any
\* interleaving of its callers, the network and the clock
InitEpt ==
  \E stored \in {None, Some(EarlierEntry), Some(CorruptEntry)}, faults \in StorageFaultModes :
    EptStart(stored, faults) /\ StacStart /\ CtlStart

NextEpt == EptNext(1) \/ Tick

SpecEpt == InitEpt /\ [][NextEpt]_vars

\* one EptSearcher with the event loop running every continuation that is
\* ready: the .then() callback of a settled _loadBoundaries() and the code
\* after a resolved await (the network is free never to answer)
InitEptLive ==
  \E stored \in {None, Some(EarlierEntry)} : EptStart(stored, {}) /\ StacStart /\ CtlStart

NextEptLive ==
  \/ \E c \in CallIds : EptCall(1, c, "searchByExtent", <<0, 0, 1, 1>>, 1)
  \/ \E c \in CallIds : EptCall(1, c, "getCount", <<0, 0, 0, 0>>, 0)
  \/ \E outcome \in FetchOutcomes : FetchSettles(1, outcome)
  \/ \E outcome \in BodyOutcomes : BodySettles(1, outcome)
  \/ LoadSettles(1)
  \/ \E c \in CallIds : EptResume(c)
  \/ ClearCache(1)

SpecEptLive ==
  /\ InitEptLive
  /\ [][NextEptLive]_vars
  /\ WF_vars(LoadSettles(1))
  /\ \A c \in CallIds : WF_vars(EptResume(c))

\* two EptSearchers constructed with different boundary URLs in one browser
\* session, which starts with an empty localStorage
InitEptPair == EptStart(None, {}) /\ StacStart /\ CtlStart

NextEptPair == \E s \in Searchers : EptNext(s)

SpecEptPair == InitEptPair /\ [][NextEptPair]_vars

\* getCopcUrl calls on one StacSearcher, the token endpoint and the clock
InitCopc == EptStart(None, {}) /\ StacStart /\ CtlStart

NextCopc == CopcNext \/ Tick

SpecCopc == InitCopc /\ [][NextCopc]_vars

\* search and the operations built on it, one call after another (the calls
\* share no state of the searcher)
InitSearch == EptStart(None, {}) /\ StacStart /\ CtlStart

NextSearch == SearchNext

SpecSearch == InitSearch /\ [][NextSearch]_vars

\* searchAll against a server in which every request is answered (with any
\* page or any failure): calls with and without a bbox, one after another
InitSearchAll == EptStart(None, {}) /\ StacStart /\ CtlStart

StartSearchAll ==
  \E bbox \in {None, Some(ValidBox)}, maxItems \in {0, 1, 2, 3} :
    Search("searchAll", bbox, Some(10), maxItems)

AnswerSearch == \E response \in Responses : SearchSettles(response)

AnswerNextPage == \E response \in Responses : NextPageSettles(response)

NextSearchAll == StartSearchAll \/ AnswerSearch \/ AnswerNextPage \/ SearchReturns

SpecSearchAllLive ==
  /\ InitSearchAll
  /\ [][NextSearchAll]_vars
  /\ WF_vars(AnswerSearch)
  /\ WF_vars(AnswerNextPage)

\* searchByExtent on one EptSearcher over indexes of every order, one call
\* after another: the session finds under CACHE_KEY nothing, or the entry an
\* earlier session wrote from the boundary file of its day
QueryFeatures ==
  {SourceFeature("a", 5, "ept/a", Polygon(0, 0, 2, 2)),
   SourceFeature("b", 9, "ept/b", Polygon(1, 1, 3, 3)),
   SourceFeature("c", 5, "ept/c", GeometryCollection),
   SourceFeature("d", 9, "ept/d", Polygon(3, 3, 4, 4))}

EarlierFiles ==
  {<<f, g, h>> : f \in QueryFeatures, g \in QueryFeatures, h \in QueryFeatures}
    \ {file \in QueryFeatures \X QueryFeatures \X QueryFeatures :
         file[1] = file[2] \/ file[1] = file[3] \/ file[2] = file[3]}

\* the entry an earlier session wrote from `file`
EntryOf(file) == [EarlierEntry EXCEPT !.data = JsonRoundTrip(ToEptFeatures(file))]

WideBoxes == {<<0, 0, 2, 2>>, <<1, 1, 3, 3>>, <<3, 3, 4, 4>>, <<5, 5, 6, 6>>}
WideLimits == {0, 1, 2, 50}

InitEptQuery ==
  \E stored \in {None} \cup {Some(EntryOf(file)) : file \in EarlierFiles} :
    EptStart(stored, {}) /\ StacStart /\ CtlStart

NextEptQuery ==
  \/ /\ \A d \in CallIds : calls[d].pc \in {"idle", "done"}
     /\ \E c \in CallIds, bbox \in WideBoxes, limit \in WideLimits :
          EptCall(1, c, "searchByExtent", bbox, limit)
  \/ FetchSettles(1, "ok")
  \/ BodySettles(1, "ok")
  \/ LoadSettles(1)
  \/ \E c \in CallIds : EptResume(c)

SpecEptQuery == InitEptQuery /\ [][NextEptQuery]_vars

\* searches made through the control, with both searchers behind it
InitControl == EptStart(None, {}) /\ StacStart /\ CtlStart

NextControl == ControlNext

SpecControl == InitControl /\ [][NextControl]_vars

\* loadItem calls on the control, the token endpoint behind getCopcUrl, and the clock
InitLoadItem == EptStart(None, {}) /\ StacStart /\ CtlStart

NextLoadItem == LoadItemNext \/ Tick

SpecLoadItem == InitLoadItem /\ [][NextLoadItem]_vars

\* the two bbox functions applied to one geometry after another
InitBbox == EptStart(None, {}) /\ StacStart /\ CtlStart

NextBbox == \E g \in Geometries : BboxOf(g)

SpecBbox == InitBbox /\ [][NextBbox]_vars

(***************************************************************************)
(* Properties of EptSearcher.                                              *)
(***************************************************************************)
\* the first load of searcher s has started and has not settled
FirstLoadPending(s) == Len(loadLog[s]) >= 1 /\ ~loadLog[s][1].settled

\* C1: while the first load of a searcher has not settled, every call made on
\* it has joined that one load, which has issued exactly one fetch of the
\* boundary file when the cache gave nothing (none when it gave the features)
\* and at most one cache write.
C1_OneFetchPerLoad ==
  \A s \in Searchers :
    FirstLoadPending(s) =>
      /\ Len(loadLog[s]) = 1
      /\ \A c \in CallIds : calls[c].s = s => calls[c].load = 1
      /\ fetchCount[s] = (IF loadLog[s][1].source = "network" THEN 1 ELSE 0)
      /\ writeCount[s] <= 1

\* two calls wait on one load that went to the network, with one fetch issued
C1_Witness ==
  \E s \in Searchers :
    /\ FirstLoadPending(s)
    /\ loadLog[s][1].source = "network"
    /\ Cardinality(Waiting(s)) >= 2
    /\ fetchCount[s] = 1

FailedResponses == {"httpError", "networkError", "invalidJson", "invalidTopology"}

\* C5: when the fetch of a load rejects, answers with a non-OK status or
\* cannot be parsed, the load writes nothing to the cache, _features stays
\* null, and every call that joined the load is rejected with that error once
\* the load has settled; none resolves.
C5_LoadFailureRejects ==
  \A s \in Searchers : \A k \in 1..Len(loadLog[s]) :
    loadLog[s][k].response \in FailedResponses =>
      /\ ~loadLog[s][k].wrote
      /\ features[s] = None
      /\ \A c \in CallIds :
           (calls[c].s = s /\ calls[c].load = k) =>
             /\ loadLog[s][k].settled => calls[c].pc \in {"ready", "done"}
             /\ calls[c].pc \in {"ready", "done"} =>
                  ~calls[c].gotOk /\ calls[c].gotError = loadLog[s][k].response
             /\ calls[c].pc = "done" =>
                  calls[c].result = EptRejection(calls[c], loadLog[s][k].response)

\* two searches that waited on a load whose body could not be parsed are rejected
C5_Witness ==
  \E c, d \in CallIds :
    /\ c # d
    /\ calls[c].s = calls[d].s /\ calls[c].load = calls[d].load /\ calls[c].load >= 1
    /\ loadLog[calls[c].s][calls[c].load].response = "invalidJson"
    /\ calls[c].op = "searchByExtent" /\ calls[d].op = "searchByExtent"
    /\ calls[c].result.status = "rejected" /\ calls[d].result.status = "rejected"

\* a step in which searcher s runs _getFromCache
ReadBy(s) == Len(loadLog'[s]) = Len(loadLog[s]) + 1

\* C9: a read of the cache after a write returns the written features while
\* the time-to-live has not passed, and returns nothing and deletes the entry
\* once it has.
C9_ReadAfterWrite ==
  [][\A s \in Searchers :
       (/\ ReadBy(s)
        /\ storageFaults = {}
        /\ localStorage # None /\ lastSaved # None) =>
         IF now <= localStorage[1].timestamp + CacheDuration
         THEN loadTask'[s].pc = "fulfilled" /\ loadTask'[s].value = lastSaved[1]
         ELSE loadTask'[s].pc = "fetching" /\ localStorage' = None]_vars

\* what holds of the code in place of C9: the read returns the written
\* features as JSON gives them back
ReadAfterWriteUpToJson ==
  [][\A s \in Searchers :
       (/\ ReadBy(s)
        /\ storageFaults = {}
        /\ localStorage # None /\ lastSaved # None) =>
         IF now <= localStorage[1].timestamp + CacheDuration
         THEN loadTask'[s].pc = "fulfilled"
              /\ loadTask'[s].value = JsonRoundTrip(lastSaved[1])
         ELSE loadTask'[s].pc = "fetching" /\ localStorage' = None]_vars

\* the entries this session did not write
EarlierEntries == {None, Some(EarlierEntry), Some(CorruptEntry)}

\* C10 in each state: no storage exception has reached a caller; a read that
\* throws is a miss, so every load goes to the network; a write that throws
\* leaves the storage as it was; and a call whose load fetched the file
\* resolves with the result computed from the fetched features.
C10_Absorbed ==
  /\ ~clearCacheThrew
  /\ \A c \in CallIds :
       calls[c].gotError # "storageError" /\ calls[c].result.error # "storageError"
  /\ \A s \in Searchers : loadTask[s].error # "storageError"
  /\ "getItem" \in storageFaults =>
       \A s \in Searchers : \A k \in 1..Len(loadLog[s]) : loadLog[s][k].source = "network"
  /\ "setItem" \in storageFaults => localStorage \in EarlierEntries
  /\ \A c \in CallIds :
       (/\ calls[c].pc = "done" /\ calls[c].load >= 1
        /\ loadLog[calls[c].s][calls[c].load].response = "ok") =>
         calls[c].result =
           EptResult(calls[c], ToEptFeatures(BoundaryFile(BoundaryUrl(calls[c].s))))

\* C10: if a storage call throws, the exception never leaves the searcher: a
\* failed read is a cache miss, a failed write or remove changes nothing, and
\* searches and clearCache complete, with results from the network's data.
C10_StorageFailuresAbsorbed ==
  /\ []C10_Absorbed
  /\ [][("removeItem" \in storageFaults /\ localStorage # None) => localStorage' # None]_vars

\* with every storage method throwing, a search has resolved from fetched data
\* after its load tried to write the cache
C10_Witness ==
  \E c \in CallIds :
    /\ storageFaults = {"getItem", "setItem", "removeItem"}
    /\ calls[c].op = "searchByExtent" /\ calls[c].result.status = "resolved"
    /\ calls[c].load >= 1 /\ loadLog[calls[c].s][calls[c].load].wrote
    /\ calls[c].result.numberMatched >= 1

\* a searchByExtent called on searcher s now would start a load that fetches
\* the boundary file: nothing in memory, no load held, nothing usable cached
NextSearchFetches(s) ==
  /\ features[s] = None
  /\ NeedsNewLoad(s)
  /\ GetFromCache.data = None /\ ~GetFromCache.threw

\* C11: whenever clearCache() is called on a searcher (never loaded, loaded,
\* load in flight, after a failed load; storage working), it leaves the
\* in-memory features null and the cache entry removed, and the next
\* searchByExtent on the searcher fetches the boundary file again.
C11_ClearCacheForcesRefetch ==
  [][\A s \in Searchers :
       (storageFaults = {} /\ ClearCache(s)) =>
         /\ features'[s] = None
         /\ localStorage' = None
         /\ NextSearchFetches(s)']_vars

\* the persistent cache holds an entry that can be read and has not expired
HoldsUnexpiredEntry ==
  /\ "getItem" \notin storageFaults
  /\ localStorage # None
  /\ ~localStorage[1].corrupt
  /\ ~(now > localStorage[1].expiresAt)

\* C23: a network fetch of the boundary file is issued only when the instance
\* has no features in memory, no load in flight, and the persistent cache holds
\* no unexpired entry; an unexpired hit is used without any fetch, and once a
\* load has succeeded no later search on that instance fetches again (even
\* after the TTL has elapsed) until clearCache is called.
C23_FetchOnlyOnMiss ==
  [][\A s \in Searchers :
       /\ fetchCount'[s] # fetchCount[s] =>
            /\ fetchCount'[s] = fetchCount[s] + 1
            /\ features[s] = None
            /\ loadPromise[s].state = "null"
            /\ ~HoldsUnexpiredEntry
       /\ (features[s] = None /\ loadPromise[s].state = "null" /\ HoldsUnexpiredEntry
             /\ loadPromise'[s].state = "pending") =>
            /\ fetchCount'[s] = fetchCount[s]
            /\ loadTask'[s].pc = "fulfilled"
            /\ loadTask'[s].value = localStorage[1].data
       /\ (features[s] # None /\ ~ClearCache(s)) =>
            /\ features'[s] = features[s]
            /\ fetchCount'[s] = fetchCount[s]]_vars

\* one fetch has loaded the features, the entry it wrote has expired, and a
\* later call has been answered from memory
C23_Witness ==
  /\ fetchCount[1] = 1 /\ features[1] # None
  /\ localStorage # None /\ now > localStorage[1].expiresAt
  /\ \E c, d \in CallIds :
       /\ calls[c].pc = "done" /\ calls[c].load = 1
       /\ calls[d].pc = "done" /\ calls[d].load = 0 /\ calls[d].result.status = "resolved"

\* C24: every caller that joined an in-flight boundary load is eventually
\* settled once the single underlying fetch completes: on success all of them
\* (and every later caller) compute their results from the same feature array,
\* and no caller is left pending.
C24_JoinersSettle ==
  /\ \A c \in CallIds :
       (calls[c].pc = "waiting" /\ loadTask[calls[c].s].pc \in {"fulfilled", "failed"})
         ~> (calls[c].pc = "done" /\ calls[c].result.status \in {"resolved", "rejected"})
  /\ [][\A c \in CallIds :
          (calls[c].pc # "ready" /\ calls'[c].pc = "ready" /\ calls'[c].gotOk) =>
            features'[calls'[c].s] = Some(calls'[c].got)]_vars

\* two callers joined the same load, which took one fetch, and both have
\* resolved from the array it produced
C24_Witness ==
  /\ fetchCount[1] = 1
  /\ \E c, d \in CallIds :
       /\ c # d /\ calls[c].load = 1 /\ calls[d].load = 1
       /\ calls[c].pc = "done" /\ calls[d].pc = "done"
       /\ calls[c].gotOk /\ calls[d].gotOk
       /\ calls[c].got = calls[d].got /\ features[1] = Some(calls[c].got)
       /\ loadLog[1][1].source = "network"

\* the loads of searcher s that have read the boundary file and built its features
BuiltFromFile(s) ==
  /\ loadTask[s].pc = "fulfilled"
  /\ loadLog[s][Len(loadLog[s])].source = "network"

\* C29: when the boundary file is loaded, each feature's bounding box is taken
\* from the source data if the source already carries one, and is derived from
\* the geometry only when the source has none.
C29_BboxFromSource ==
  \A s \in Searchers :
    BuiltFromFile(s) =>
      LET file == BoundaryFile(BoundaryUrl(s)) IN
      /\ Len(loadTask[s].value) = Len(file)
      /\ \A i \in 1..Len(file) :
           loadTask[s].value[i].bbox =
             IF file[i].bbox # None THEN file[i].bbox[1] ELSE ComputeBbox(file[i].geometry)

\* the names of the features in the file served at the searcher's boundaryUrl
OwnNames(s) ==
  {BoundaryFile(BoundaryUrl(s))[i].name : i \in 1..Len(BoundaryFile(BoundaryUrl(s)))}

NamesOf(fs) == {fs[i].name : i \in 1..Len(fs)}

\* the in-flight load slot and the features of searcher s
SlotOf(s) == <<loadPromise[s], loadTask[s], features[s]>>

\* C30: independent EptSearcher instances do not interfere with each other:
\* each has its own in-flight load slot (a load started or failed on one is
\* neither shared with nor blocks another), and the features an instance
\* returns are those of its own boundaryUrl, never those loaded by another
\* instance configured with a different URL.
C30_InstancesIndependent ==
  /\ [][\A s, r \in Searchers : (s # r /\ SlotOf(s)' # SlotOf(s)) => SlotOf(r)' = SlotOf(r)]_vars
  /\ [](\A s \in Searchers : features[s] # None => NamesOf(features[s][1]) = OwnNames(s))
  /\ [](\A c \in CallIds :
          (calls[c].pc = "done" /\ calls[c].result.status = "resolved") =>
            NamesOf(calls[c].result.features) \subseteq OwnNames(calls[c].s))

(***************************************************************************)
(* Properties of EptSearcher.searchByExtent.                               *)
(***************************************************************************)
\* the searchByExtent calls that have resolved
ResolvedSearches ==
  {c \in CallIds : /\ calls[c].pc = "done" /\ calls[c].op = "searchByExtent"
                   /\ calls[c].result.status = "resolved"}

\* a bbox component as a comparison reads it (null counts as 0)
AsNumber(v) == IF v = JsonNull THEN 0 ELSE v

\* boxes fb and qb overlap or touch
Touches(fb, qb) ==
  /\ AsNumber(fb[1]) <= qb[3] /\ AsNumber(fb[3]) >= qb[1]
  /\ AsNumber(fb[2]) <= qb[4] /\ AsNumber(fb[4]) >= qb[2]

\* the positions in the index the call searched of the features that match
MatchesOf(c) == {i \in 1..Len(calls[c].got) : Touches(calls[c].got[i].bbox, calls[c].bbox)}

\* C12: searchByExtent returns numberMatched equal to the number of loaded
\* features whose bbox intersects or touches the query bbox, counted before
\* truncation: it does not depend on limit and is never smaller than the
\* number of features returned.
C12_NumberMatched ==
  \A c \in ResolvedSearches :
    /\ calls[c].result.numberMatched = Cardinality(MatchesOf(c))
    /\ Len(calls[c].result.features) <= calls[c].result.numberMatched
    /\ \A d \in ResolvedSearches :
         (calls[d].got = calls[c].got /\ calls[d].bbox = calls[c].bbox) =>
           calls[d].result.numberMatched = calls[c].result.numberMatched

\* a search with limit 1 whose query box only touches the two features it
\* matches, and a search of the same box with another limit
C12_Witness ==
  \E c, d \in ResolvedSearches :
    /\ calls[c].bbox = <<3, 3, 4, 4>> /\ calls[c].limit = 1
    /\ calls[c].result.numberMatched = 2 /\ Len(calls[c].result.features) = 1
    /\ calls[d].bbox = <<3, 3, 4, 4>> /\ calls[d].limit = 50
    /\ calls[d].got = calls[c].got

\* the smaller of two numbers
Least(a, b) == IF a < b THEN a ELSE b

\* C13: the features searchByExtent returns are in non-increasing point-count
\* order and are the min(limit, numberMatched) highest-count matches, whatever
\* the order of the loaded index; two calls with the same bbox and limit
\* return the same list.
C13_SortedTopMatches ==
  \A c \in ResolvedSearches :
    LET got == calls[c].got
        out == calls[c].result.features
    IN  /\ Len(out) = Least(calls[c].limit, Cardinality(MatchesOf(c)))
        /\ \A j \in 1..Len(out) :
             /\ \E i \in MatchesOf(c) : got[i] = out[j]
             /\ \A k \in 1..Len(out) : k < j => out[k].count >= out[j].count /\ out[k] # out[j]
             /\ Cardinality({i \in MatchesOf(c) : got[i].count > out[j].count}) < j
        /\ \A d \in ResolvedSearches :
             (/\ calls[d].got = got /\ calls[d].bbox = calls[c].bbox
              /\ calls[d].limit = calls[c].limit) => calls[d].result = calls[c].result

\* an index that holds its lowest-count feature first was searched with limit 2
\* and three matches: the two features of count 9 came back
C13_Witness ==
  \E c \in ResolvedSearches :
    /\ calls[c].got[1].name = "a"
    /\ calls[c].limit = 2 /\ calls[c].result.numberMatched = 3
    /\ {calls[c].result.features[j].name : j \in 1..2} = {"b", "d"}

\* feature f is among the features call c returned
Returned(c, f) == \E j \in 1..Len(calls[c].result.features) : calls[c].result.features[j] = f

\* a loaded bbox with finite west <= east and south <= north
ValidBbox(b) ==
  /\ \A k \in 1..4 : b[k] # JsonNull /\ IsFinite(b[k])
  /\ b[1] <= b[3] /\ b[2] <= b[4]

\* C14: the intersection test of searchByExtent is symmetric: for features f
\* and g with valid boxes, f matches the query g.bbox exactly when g matches
\* the query f.bbox.
C14_IntersectsSymmetric ==
  \A c, d \in ResolvedSearches :
    (calls[c].got = calls[d].got /\ calls[c].limit = 50 /\ calls[d].limit = 50) =>
      \A i, j \in 1..Len(calls[c].got) :
        LET f == calls[c].got[i]
            g == calls[c].got[j]
        IN  (/\ ValidBbox(f.bbox) /\ ValidBbox(g.bbox)
             /\ calls[c].bbox = g.bbox /\ calls[d].bbox = f.bbox) =>
              (Returned(c, f) <=> Returned(d, g))

\* of three loaded features, two that touch at a corner match each other's
\* box, and two that lie apart do not
C14_Witness ==
  \E c, d \in ResolvedSearches : \E i, j, k \in 1..Len(calls[c].got) :
    LET f == calls[c].got[i]
        g == calls[c].got[j]
        h == calls[c].got[k]
    IN  /\ calls[c].got = calls[d].got /\ calls[c].limit = 50 /\ calls[d].limit = 50
        /\ f.name = "b" /\ g.name = "d" /\ h.name = "a"
        /\ calls[c].bbox = g.bbox /\ calls[d].bbox = f.bbox
        /\ Returned(c, f) /\ Returned(d, g) /\ ~Returned(c, h)

(***************************************************************************)
(* Properties of the converters and of UsgsLidarControl.searchByBbox.      *)
(***************************************************************************)
\* the searches of the control that have resolved, by the searcher they went to
CompletedSearches(branch) ==
  {k \in SearchIds : /\ ctlSearches[k].pc = "done" /\ ctlSearches[k].branch = branch
                     /\ ctlSearches[k].result.status = "resolved"}

\* the feature names of the page the catalog answered search k with
PageFeatures(k) == ctlSearches[k].stac.searchResponse.page.features

\* C15: for every STAC item, originalItem of stacToUnified(item) is deep-equal
\* to the item, and the conversion leaves the item (id, bbox, properties,
\* assets) as it was.
C15_OriginalItemRoundTrip ==
  \A k \in CompletedSearches("copc") :
    /\ Len(ctlSearches[k].result.items) = Len(PageFeatures(k))
    /\ Len(ctlSearches[k].response) = Len(PageFeatures(k))
    /\ \A i \in 1..Len(PageFeatures(k)) :
         /\ ctlSearches[k].result.items[i].originalItem = CatalogItem(PageFeatures(k)[i])
         /\ ctlSearches[k].response[i] = CatalogItem(PageFeatures(k)[i])

\* an item with a 6-element bbox was converted: the unified item has 4
\* elements, its originalItem still has 6
C15_Witness ==
  \E k \in CompletedSearches("copc") : \E i \in 1..Len(ctlSearches[k].result.items) :
    LET item == ctlSearches[k].result.items[i] IN
    /\ item.bbox = <<-123, 44, -122, 45>>
    /\ item.originalItem.bbox = <<-123, 44, 10, -122, 45, 20>>
    /\ item.name = <<"i2">> /\ item.originalItem.id = <<"3DEP_", "i2">>

\* the searchcomplete events search k has emitted
CompleteEvents(k) ==
  {e \in 1..Len(ctlEvents) : ctlEvents[e].type = "searchcomplete" /\ ctlEvents[e].search = k}

\* the total the claim expects for a page of the catalog
ExpectedTotal(page) ==
  IF page.numberMatched # None THEN page.numberMatched[1]
  ELSE IF page.matched # None THEN page.matched[1]
  ELSE Len(page.features)

\* search k of the control produced `ids`, tagged `tag`, with total `total`
Produced(k, ids, tag, total) ==
  LET items == ctlSearches[k].result.items IN
  /\ Len(items) = Len(ids)
  /\ \A i \in 1..Len(ids) : items[i].id = ids[i] /\ items[i].sourceType = tag
  /\ Cardinality(CompleteEvents(k)) = 1
  /\ \A e \in CompleteEvents(k) :
       /\ ctlEvents[e].state.searchResults = items
       /\ ctlEvents[e].state.totalMatched = Some(total)

\* C16: a search against the catalog yields one unified item per feature the
\* catalog returned, in the same order, each tagged 'copc', and totalMatched
\* equal to numberMatched, else context.matched, else the number of items; a
\* search against the spatial index does the same with tag 'ept' and the
\* searcher's numberMatched.
C16_UnifiedResults ==
  /\ \A k \in CompletedSearches("copc") :
       LET page == ctlSearches[k].stac.searchResponse.page IN
       Produced(k, [i \in 1..Len(page.features) |-> CatalogItem(page.features[i]).id],
                "copc", ExpectedTotal(page))
  /\ \A k \in CompletedSearches("ept") :
       LET response == calls[ctlSearches[k].eptCall].result IN
       Produced(k, [i \in 1..Len(response.features) |-> <<response.features[i].name>>],
                "ept", response.numberMatched)

\* a catalog search that returned two features of five matched, and a
\* spatial-index search that returned features, have both completed
C16_Witness ==
  \E k \in CompletedSearches("copc"), j \in CompletedSearches("ept") :
    /\ Len(ctlSearches[k].result.items) = 2
    /\ \E e \in CompleteEvents(k) : ctlEvents[e].state.totalMatched = Some(5)
    /\ Len(ctlSearches[j].result.items) >= 1

\* the runtime type of a back-reference: a STAC item has an id and assets, an
\* EPT feature has the name, count and url of its properties
IsStacItem(x) == {"id", "hasData", "href"} \subseteq DOMAIN x /\ "url" \notin DOMAIN x
IsEptFeature(x) == {"name", "count", "url"} \subseteq DOMAIN x /\ "id" \notin DOMAIN x

ConsistentItem(item) ==
  /\ item.sourceType \in {"copc", "ept"}
  /\ item.sourceType = "copc" => IsStacItem(item.originalItem)
  /\ item.sourceType = "ept" => IsEptFeature(item.originalItem)

AllConsistent(items) == \A i \in 1..Len(items) : ConsistentItem(items[i])

\* C21: every unified item the adapters produce, and every item that ever
\* appears in the control's searchResults, has a sourceType consistent with its
\* originalItem: 'copc' items reference a STAC item, 'ept' items an EPT feature.
C21_SourceTypeConsistent ==
  /\ AllConsistent(ctlState.searchResults)
  /\ \A e \in 1..Len(ctlEvents) : AllConsistent(ctlEvents[e].state.searchResults)
  /\ \A k \in SearchIds : AllConsistent(ctlSearches[k].result.items)

\* the control shows catalog items after the data source was switched to the
\* spatial index, and a spatial-index search has produced items as well
C21_Witness ==
  /\ ctlState.dataSource = "ept"
  /\ ctlState.searchResults # <<>>
  /\ \A i \in 1..Len(ctlState.searchResults) : ctlState.searchResults[i].sourceType = "copc"
  /\ \E k \in CompletedSearches("ept") : ctlSearches[k].result.items # <<>>

\* the positions in ctlEvents of the events search k has emitted
EventsOf(k) == {e \in 1..Len(ctlEvents) : ctlEvents[e].search = k}
StartOf(k) == CHOOSE e \in EventsOf(k) : \A d \in EventsOf(k) : e <= d
EndOf(k) == CHOOSE e \in EventsOf(k) : \A d \in EventsOf(k) : d <= e

\* no other search emitted anything between the start and the end of search k
NonOverlapping(k) ==
  \A e \in 1..Len(ctlEvents) : (StartOf(k) < e /\ e < EndOf(k)) => ctlEvents[e].search = k

\* C22: for a single (non-overlapping) searchByBbox call, 'searchstart' is
\* emitted first with isSearching true and empty results, then exactly one of
\* 'searchcomplete' (success, carrying the items) or 'searcherror' (failure,
\* carrying the error, which is also rethrown); in both outcomes isSearching is
\* false afterwards, and on failure searchResults is empty and searchError
\* holds the message.
C22_SearchEvents ==
  \A k \in SearchIds :
    LET search == ctlSearches[k] IN
    /\ search.pc \in {"idle", "initwait"} => EventsOf(k) = {}
    /\ search.pc = "waiting" => Cardinality(EventsOf(k)) = 1
    /\ search.pc = "done" => Cardinality(EventsOf(k)) = 2
    /\ EventsOf(k) # {} =>
         LET started == ctlEvents[StartOf(k)] IN
         /\ started.type = "searchstart"
         /\ started.state.isSearching
         /\ started.state.searchResults = <<>>
    /\ search.pc = "done" =>
         LET ended == ctlEvents[EndOf(k)] IN
         /\ ~ended.state.isSearching
         /\ IF search.result.status = "resolved"
            THEN /\ ended.type = "searchcomplete"
                 /\ ended.state.searchResults = search.result.items
            ELSE /\ search.result.status = "rejected"
                 /\ ended.type = "searcherror"
                 /\ ended.state.searchError = Some(search.result.error)
                 /\ NonOverlapping(k) => ended.state.searchResults = <<>>

\* a search that found items has completed, and the search called after it has
\* failed with the catalog's error: its events follow those of the first
C22_Witness ==
  \E j, k \in SearchIds :
    /\ ctlSearches[j].pc = "done" /\ ctlSearches[k].pc = "done"
    /\ ctlSearches[j].result.status = "resolved" /\ ctlSearches[j].result.items # <<>>
    /\ ctlSearches[k].result.status = "rejected"
    /\ EndOf(j) < StartOf(k)
    /\ ctlEvents[EndOf(k)].state.searchResults = <<>>
    /\ ctlEvents[EndOf(k)].state.searchError # None

(***************************************************************************)
(* Properties of StacSearcher.getCopcUrl.                                  *)
(***************************************************************************)
\* the calls of getCopcUrl that have returned or thrown
DoneCopcCalls == {c \in CallIds : copcCalls[c].pc = "done"}

\* the URL the claim expects for an href and a token
ExpectedSignedUrl(href, token) ==
  IF \E i \in 1..Len(href) : href[i] = "?"
  THEN href \o <<"&">> \o token
  ELSE href \o <<"?">> \o token

\* C2: for an item with a data asset, when the token endpoint answers the
\* call's request with token T, getCopcUrl resolves with exactly href + "?" + T
\* when href holds no "?", and href + "&" + T when it holds one (the same for
\* a call served from the token another call cached).
C2_SignedUrl ==
  \A c \in DoneCopcCalls :
    LET call == copcCalls[c] IN
    /\ (call.item.hasData /\ call.outcome = "ok") =>
         call.result = Resolved(ExpectedSignedUrl(call.item.href, call.token))
    /\ (call.item.hasData /\ call.requested = 0) =>
         \E token \in Tokens :
           call.result = Resolved(ExpectedSignedUrl(call.item.href, token))

\* both kinds of href have been signed with a token the endpoint returned
C2_Witness ==
  \E c, d \in DoneCopcCalls :
    /\ copcCalls[c].outcome = "ok" /\ copcCalls[d].outcome = "ok"
    /\ copcCalls[c].item.id = "item-1" /\ copcCalls[d].item.id = "item-2"
    /\ copcCalls[c].result =
         Resolved(<<"https://host/f.copc.laz", "?">> \o copcCalls[c].token)
    /\ copcCalls[d].result =
         Resolved(<<"https://host/g.copc.laz", "?", "v=1", "&">> \o copcCalls[d].token)

TokenFailures == {"httpError", "networkError", "unreadable"}

\* C3: for an item with a data asset getCopcUrl never rejects, and when the
\* token request fails (non-OK status, rejected request, unreadable body) it
\* resolves with exactly the unsigned href.
C3_UnsignedFallback ==
  \A c \in DoneCopcCalls :
    LET call == copcCalls[c] IN
    call.item.hasData =>
      /\ call.result.status = "resolved"
      /\ call.requested = 1 => call.outcome \in TokenFailures \cup {"ok"}
      /\ call.outcome \in TokenFailures => call.result = Resolved(call.item.href)

\* calls whose token request failed with a non-OK status and with an
\* unreadable body have resolved with the unsigned href
C3_Witness ==
  \E c, d \in DoneCopcCalls :
    /\ copcCalls[c].outcome = "httpError" /\ copcCalls[d].outcome = "unreadable"
    /\ copcCalls[c].item.hasData /\ copcCalls[d].item.hasData
    /\ copcCalls[c].result = Resolved(copcCalls[c].item.href)
    /\ copcCalls[d].result = Resolved(copcCalls[d].item.href)

\* a call of getCopcUrl for an item without a data asset starts in this step
StartsWithoutAsset(c) ==
  /\ copcCalls[c].pc = "idle" /\ copcCalls'[c].pc # "idle"
  /\ ~copcCalls'[c].item.hasData

\* C4 in each state: a call for an item without a data asset has thrown an
\* error naming the item's id, and has issued no token request
C4_Rejected ==
  \A c \in CallIds :
    LET call == copcCalls[c] IN
    (call.pc # "idle" /\ ~call.item.hasData) =>
      /\ call.pc = "done"
      /\ call.result.status = "rejected"
      /\ \E i \in 1..Len(call.result.value) : call.result.value[i] = call.item.id
      /\ call.requested = 0

\* C4: for an item with no data asset getCopcUrl rejects with an error whose
\* message names the item's id, before it contacts the token endpoint and
\* without changing the cached token.
C4_NoAssetRejects ==
  /\ []C4_Rejected
  /\ [][\A c \in CallIds :
          StartsWithoutAsset(c) =>
            /\ copcCalls'[c].pc = "done"
            /\ cachedToken' = cachedToken
            /\ tokenFetchCount' = tokenFetchCount]_vars

\* a call for the item without a data asset was rejected while a token that an
\* earlier call fetched is cached
C4_Witness ==
  \E c \in DoneCopcCalls :
    /\ copcCalls[c].item.id = "item-3"
    /\ copcCalls[c].result = Rejected(<<"No data asset found for item ", "item-3">>)
    /\ cachedToken # None /\ tokenFetchCount = 1

(***************************************************************************)
(* Properties of StacSearcher.search.                                      *)
(***************************************************************************)
SearchOps == {"search", "searchByExtent", "getCount", "searchAll"}

\* the bbox in the body of the search request of the call
SentBbox == searchCall.requests[1].body[1].bbox[1]

\* a call that went through search with a bbox
SearchedWithBbox ==
  searchCall.pc # "idle" /\ searchCall.op \in SearchOps /\ searchCall.bbox # None

\* C6: when the search endpoint answers with a non-successful status, search
\* and the operations that go through it reject with an error whose message
\* holds the status code and the status text, and the body text when it can
\* be read; they never resolve.
C6_SearchFailureRejects ==
  (searchCall.pc # "idle" /\ searchCall.searchResponse.kind = "httpError") =>
    LET response == searchCall.searchResponse
        message == searchCall.result.message
        Holds(piece) == \E i \in 1..Len(message) : message[i] = piece
    IN  /\ searchCall.op \in SearchOps
        /\ searchCall.pc = "done"
        /\ searchCall.result.status = "rejected"
        /\ Holds(response.status) /\ Holds(response.statusText)
        /\ response.readable => Holds(response.body)
        /\ Len(searchCall.requests) = 1

\* searchAll was answered 500 with a readable body and has rejected with the
\* status, the status text and the body
C6_Witness ==
  /\ searchCall.op = "searchAll" /\ searchCall.pc = "done"
  /\ searchCall.searchResponse = HttpError("500", "Internal Server Error", TRUE)
  /\ searchCall.result.status = "rejected"
  /\ searchCall.result.message =
       <<"STAC search failed: ", "500", " ", "Internal Server Error", " - ", "detail">>

\* the component the claim expects to be sent for a component of the input
ExpectedComponent(val, defaultVal, min, max) ==
  IF val \in {NaN, Infinity, NegInfinity} THEN defaultVal
  ELSE IF val < min THEN min
  ELSE IF val > max THEN max
  ELSE val

InRange(bbox) ==
  /\ bbox[1] \in -180..180 /\ bbox[3] \in -180..180
  /\ bbox[2] \in -90..90 /\ bbox[4] \in -90..90

\* C7: for every bbox passed to search a request is issued, and the bbox in
\* its body is, component by component, the world default for a non-finite
\* component and the component clamped to its range otherwise; so every sent
\* component is in range and a valid bbox is sent unchanged.
C7_BboxClamped ==
  SearchedWithBbox =>
    LET bbox == searchCall.bbox[1] IN
    /\ Len(searchCall.requests) >= 1
    /\ searchCall.requests[1].url = <<StacUrl, "/search">>
    /\ searchCall.requests[1].body # None
    /\ searchCall.requests[1].body[1].bbox # None
    /\ SentBbox = <<ExpectedComponent(bbox[1], -180, -180, 180),
                    ExpectedComponent(bbox[2], -90, -90, 90),
                    ExpectedComponent(bbox[3], 180, -180, 180),
                    ExpectedComponent(bbox[4], 90, -90, 90)>>
    /\ InRange(SentBbox)
    /\ InRange(bbox) => SentBbox = bbox

\* a bbox with a NaN west, an out-of-range south and east and an infinite
\* north was sent as the world extent
C7_Witness ==
  /\ SearchedWithBbox
  /\ searchCall.bbox[1] = <<NaN, -91, 181, Infinity>>
  /\ SentBbox = <<-180, -90, 180, 90>>

\* C8 as stated: the bbox search sends always has west <= east and
\* south <= north.
C8_AlwaysOrdered ==
  SearchedWithBbox => SentBbox[1] <= SentBbox[3] /\ SentBbox[2] <= SentBbox[4]

\* the pair of input components lo, hi is in order, or one of them is not finite
OrderedOrNonFinite(lo, hi) == ~IsFinite(lo) \/ ~IsFinite(hi) \/ lo <= hi

\* C8 (amended): normalization keeps an order, it does not make one: the sent
\* bbox has west <= east when the input has west <= east or a non-finite west
\* or east, and has west >= east otherwise; the same for south and north.
C8_OrderPreserved ==
  SearchedWithBbox =>
    LET bbox == searchCall.bbox[1] IN
    /\ IF OrderedOrNonFinite(bbox[1], bbox[3])
       THEN SentBbox[1] <= SentBbox[3] ELSE SentBbox[1] >= SentBbox[3]
    /\ IF OrderedOrNonFinite(bbox[2], bbox[4])
       THEN SentBbox[2] <= SentBbox[4] ELSE SentBbox[2] >= SentBbox[4]

\* an ordered bbox whose west and south lie below the range was sent in order
C8_Witness ==
  /\ SearchedWithBbox
  /\ searchCall.bbox[1] = <<-181, -91, -10, -5>>
  /\ SentBbox = <<-180, -90, -10, -5>>


\* the tokens the endpoint has issued to the calls made so far
IssuedTokens == {copcCalls[d].token : d \in {c \in CallIds : copcCalls[c].outcome = "ok"}}

\* the getCopcUrl calls made so far
StartedCopcCalls == {c \in CallIds : copcCalls[c].pc # "idle"}

\* C25: under any interleaving of K concurrent getCopcUrl calls, at most K token
\* requests are issued, and each call resolves with its own item's href, either
\* signed with a token the endpoint issued (its own response or a validly
\* cached one) or unsigned if its own token request failed; redundant refreshes
\* never make a call reject or return another item's URL, and afterwards the
\* cached token is one that the endpoint issued.
C25_RedundantRefreshesHarmless ==
  /\ tokenFetchCount <= Cardinality(StartedCopcCalls)
  /\ tokenFetchCount = Cardinality({c \in CallIds : copcCalls[c].requested = 1})
  /\ cachedToken # None => cachedToken[1].token \in IssuedTokens
  /\ \A c \in DoneCopcCalls :
       LET call == copcCalls[c] IN
       call.item.hasData =>
         /\ call.result.status = "resolved"
         /\ IF call.requested = 1
            THEN IF call.outcome = "ok"
                 THEN call.result.value = ExpectedSignedUrl(call.item.href, call.token)
                 ELSE call.result.value = call.item.href
            ELSE \E token \in IssuedTokens :
                   call.result.value = ExpectedSignedUrl(call.item.href, token)

\* two overlapping calls for different items each requested a token, were
\* issued different ones, and each resolved with its own href and token
C25_Witness ==
  /\ tokenFetchCount = 2
  /\ \E c, d \in DoneCopcCalls :
       /\ copcCalls[c].item.hasData /\ copcCalls[d].item.hasData
       /\ copcCalls[c].item # copcCalls[d].item
       /\ copcCalls[c].outcome = "ok" /\ copcCalls[d].outcome = "ok"
       /\ copcCalls[c].token # copcCalls[d].token
       /\ cachedToken # None /\ cachedToken[1].token = copcCalls[d].token

\* the one request a call of `op` is in flight with or has finished with
SentBody == searchCall.requests[1].body[1]

\* the smaller of a limit and the server's maximum
MinLimit(limit) == IF limit > 1000 THEN 1000 ELSE limit

\* what search({bbox, limit}) does with the response the call received
AsSearch(bbox, limit) ==
  SearchSettled(SearchStarted("search", bbox, limit, 0), searchCall.searchResponse)

\* C17: searchByExtent(bbox, limit) is equivalent to search({bbox, limit}): it
\* issues exactly one POST to <stacBaseUrl>/search whose body carries the same
\* bbox, the same limit (50 when omitted) and collections = [collection], and
\* it returns or rejects with exactly what search does.
C17_SearchByExtentIsSearch ==
  (searchCall.op = "searchByExtent" /\ searchCall.pc # "idle") =>
    LET limit == IF searchCall.limit = None THEN 50 ELSE searchCall.limit[1]
        search == AsSearch(searchCall.bbox, Some(limit))
    IN  /\ Len(searchCall.requests) = 1
        /\ searchCall.requests[1].url = <<StacUrl, "/search">>
        /\ searchCall.requests[1].method = "POST"
        /\ SentBody.collections = <<Collection>>
        /\ SentBody.limit = Some(MinLimit(limit))
        /\ searchCall.requests = search.requests
        /\ searchCall.pc = "done" => searchCall.result = search.result
        /\ searchCall.pc = "done" <=> searchCall.searchResponse # NoResponse

\* searchByExtent without a limit has returned the catalog's page, and has
\* sent limit 50
C17_Witness ==
  /\ searchCall.op = "searchByExtent" /\ searchCall.pc = "done"
  /\ searchCall.limit = None /\ SentBody.limit = Some(50)
  /\ SentBody.bbox = Some(<<-123, 44, -122, 45>>)
  /\ searchCall.result.status = "resolved" /\ searchCall.result.page.features = <<"i1", "i2">>

\* C18: getCount(params) issues exactly one search request whose body has
\* limit 0, whatever limit params carries, and resolves with numberMatched
\* when present, otherwise context.matched, otherwise 0; it rejects when the
\* search rejects.
C18_GetCount ==
  (searchCall.op = "getCount" /\ searchCall.pc # "idle") =>
    LET response == searchCall.searchResponse
        page == response.page
        search == AsSearch(searchCall.bbox, Some(0))
    IN  /\ Len(searchCall.requests) = 1
        /\ searchCall.requests[1].url = <<StacUrl, "/search">>
        /\ SentBody.limit = Some(0)
        /\ searchCall.pc = "done" =>
             IF search.result.status = "rejected"
             THEN searchCall.result = search.result
             ELSE /\ searchCall.result.status = "resolved"
                  /\ searchCall.result.kind = "count"
                  /\ searchCall.result.count =
                       IF page.numberMatched # None THEN page.numberMatched[1]
                       ELSE IF page.matched # None THEN page.matched[1]
                       ELSE 0

\* getCount, called with a limit of 10 in its params, has resolved with
\* context.matched of a response without numberMatched
C18_Witness ==
  /\ searchCall.op = "getCount" /\ searchCall.pc = "done"
  /\ searchCall.limit = Some(10)
  /\ searchCall.searchResponse.kind = "ok"
  /\ searchCall.searchResponse.page.numberMatched = None
  /\ searchCall.result.count = 7

\* the limit in the params an operation hands to search
SuppliedLimit ==
  IF searchCall.op = "getCount" THEN Some(0)
  ELSE IF searchCall.op = "searchByExtent" /\ searchCall.limit = None THEN Some(50)
  ELSE searchCall.limit

\* C19: for every limit supplied to search, the limit sent in the request body
\* is min(limit, 1000); when no limit is supplied, none is sent.
C19_LimitCapped ==
  (searchCall.op \in SearchOps /\ searchCall.pc # "idle") =>
    SentBody.limit = IF SuppliedLimit = None THEN None
                     ELSE Some(MinLimit(SuppliedLimit[1]))

\* search was called with limit 1001 and has sent 1000
C19_Witness ==
  /\ searchCall.op = "search" /\ searchCall.pc = "done"
  /\ searchCall.limit = Some(1001) /\ SentBody.limit = Some(1000)


\* C20: a cached signed token is reused, without contacting the token
\* endpoint, exactly when its expiry minus 5 minutes is later than the current
\* time; in every other case (no cached token, or less than 5 minutes left)
\* getCopcUrl requests a new token and, on success, replaces the cached one.
C20_TokenReuse ==
  [][\A c \in CallIds :
       /\ (copcCalls[c].pc = "idle" /\ copcCalls'[c].pc # "idle"
             /\ copcCalls'[c].item.hasData) =>
            IF cachedToken # None /\ cachedToken[1].expiry - 5 > now
            THEN /\ tokenFetchCount' = tokenFetchCount
                 /\ copcCalls'[c].pc = "done"
                 /\ copcCalls'[c].result =
                      Resolved(copcCalls'[c].item.href
                                 \o <<IF Includes(copcCalls'[c].item.href, "?") THEN "&" ELSE "?">>
                                 \o cachedToken[1].token)
                 /\ cachedToken' = cachedToken
            ELSE /\ tokenFetchCount' = tokenFetchCount + 1
                 /\ copcCalls'[c].pc = "fetching"
       /\ (copcCalls[c].pc = "reading" /\ copcCalls'[c].outcome = "ok") =>
            /\ cachedToken' # None
            /\ cachedToken'[1].token = copcCalls'[c].token
            /\ cachedToken'[1].expiry - now \in TokenLifetimes]_vars

\* two calls of getCopcUrl have resolved on one token request: the second
\* reused the token the first one cached
C20_Witness ==
  /\ tokenFetchCount = 1
  /\ \E c, d \in CallIds :
       /\ copcCalls[c].pc = "done" /\ copcCalls[c].requested = 1 /\ copcCalls[c].outcome = "ok"
       /\ copcCalls[d].pc = "done" /\ copcCalls[d].requested = 0 /\ copcCalls[d].item.hasData
       /\ copcCalls[d].result.status = "resolved"
       /\ cachedToken # None /\ copcCalls[c].token = cachedToken[1].token


(***************************************************************************)
(* Properties of StacSearcher.searchAll and fetchNextPage.                 *)
(***************************************************************************)
\* the features of pages 1..n, in page order
RECURSIVE Concatenated(_, _)
Concatenated(pages, n) ==
  IF n = 0 THEN <<>> ELSE Concatenated(pages, n - 1) \o pages[n].features

FirstItems(items, n) == SubSeq(items, 1, IF n < Len(items) THEN n ELSE Len(items))

\* a searchAll call and what it has received
SearchAllCall == searchCall.op = "searchAll" /\ searchCall.pc # "idle"
Received == searchCall.received
AllReceived == Concatenated(Received, Len(Received))

\* what searchAll returns, which requests it issues, and when it rejects
SearchAllResult ==
  /\ Len(searchCall.requests) \in {Len(Received), Len(Received) + 1}
  /\ \A r \in 2..Len(searchCall.requests) :
       /\ Len(Concatenated(Received, r - 1)) < searchCall.maxItems
       /\ Received[r - 1].next # None
       /\ searchCall.requests[r].url = <<Received[r - 1].next[1]>>
  /\ searchCall.pc = "done" =>
       IF Len(searchCall.requests) > Len(Received)
       THEN searchCall.result.status = "rejected"
       ELSE /\ searchCall.result.status = "resolved"
            /\ searchCall.result.kind = "items"
            /\ searchCall.result.items = FirstItems(AllReceived, searchCall.maxItems)
            /\ Len(searchCall.result.items) <= searchCall.maxItems
            /\ \/ Len(AllReceived) >= searchCall.maxItems
               \/ Received[Len(Received)].next = None
               \/ Received[Len(Received)].features = <<>>

\* C26 as stated: searchAll returns the first maxItems items of the pages
\* concatenated in page order, never more than maxItems; it requests a further
\* page only while fewer than maxItems items are accumulated and stops at the
\* first response without a next link or with an empty page; if any page
\* request fails the whole call rejects.
C26_StopsAtAnyEmptyPage ==
  SearchAllCall =>
    /\ SearchAllResult
    /\ \A r \in 2..Len(searchCall.requests) : Received[r - 1].features # <<>>

\* C26, amended: the same, where the empty page that stops the loop is a page
\* fetched through a next link; an empty first page with a next link is
\* followed.
C26_StopsAtEmptyNextPage ==
  SearchAllCall =>
    /\ SearchAllResult
    /\ \A r \in 3..Len(searchCall.requests) : Received[r - 1].features # <<>>

\* searchAll with maxItems 3 received two features, followed the next link,
\* received two more and returned the first three
C26_Witness ==
  /\ SearchAllCall /\ searchCall.pc = "done" /\ searchCall.maxItems = 3
  /\ Len(Received) = 2 /\ Len(AllReceived) = 4
  /\ searchCall.result.items = <<"i1", "i2", "i1">>


\* C27: searchAll terminates for every finite maxItems provided each page
\* request completes, even when the server supplies a next link on every page
\* (including links that form a cycle): every loop iteration either stops or
\* adds at least one item.
C27_SearchAllTerminates ==
  /\ SearchAllCall ~> (searchCall.op = "searchAll" /\ searchCall.pc = "done")
  /\ [](SearchAllCall => Len(searchCall.requests) <= searchCall.maxItems + 1)
  /\ [](SearchAllCall /\ searchCall.pc = "paging" =>
          Len(searchCall.items) < searchCall.maxItems)
  /\ [][(SearchAllCall /\ searchCall.pc = "paging" /\ searchCall'.pc = "paging") =>
          Len(searchCall'.items) > Len(searchCall.items)]_vars

\* searchAll followed a next link that led to the same page again, with a next
\* link once more, and has returned
C27_Witness ==
  /\ SearchAllCall /\ searchCall.pc = "done"
  /\ Len(Received) = 2 /\ Received[1] = Received[2]
  /\ Received[2].next # None /\ Received[2].features # <<>>
  /\ searchCall.result.status = "resolved"


\* C28: fetchNextPage returns null, without any network request, when the given
\* response has no link with rel = 'next'; otherwise it issues exactly one
\* request to that link's href and resolves with the parsed page, rejecting
\* when that request is not successful.
C28_FetchNextPage ==
  (searchCall.op = "fetchNextPage" /\ searchCall.pc # "idle") =>
    LET given == searchCall.page IN
    IF given.next = None
    THEN /\ searchCall.pc = "done"
         /\ searchCall.requests = <<>>
         /\ searchCall.result.status = "resolved" /\ searchCall.result.kind = "null"
    ELSE /\ Len(searchCall.requests) = 1
         /\ searchCall.requests[1].url = <<given.next[1]>>
         /\ searchCall.pc = "done" =>
              IF Received = <<>>
              THEN searchCall.result.status = "rejected"
              ELSE /\ Len(Received) = 1
                   /\ searchCall.result.status = "resolved"
                   /\ searchCall.result.kind = "page"
                   /\ searchCall.result.page = Received[1]

\* fetchNextPage was given a page with a next link, requested it and resolved
\* with the page that came back
C28_Witness ==
  /\ searchCall.op = "fetchNextPage" /\ searchCall.pc = "done"
  /\ searchCall.page.next = Some("next-1")
  /\ searchCall.requests[1].url = <<"next-1">>
  /\ searchCall.result.status = "resolved" /\ searchCall.result.page.features = <<"i3">>

(***************************************************************************)
(* Properties of the feature array held by an EptSearcher.                 *)
(***************************************************************************)
\* the arrays a load of the boundary file can put in memory: the one built
\* from the fetched file, and the one parsed back from the cache entry
LoadedArrays ==
  {ToEptFeatures(BoundaryFile("urlA")), JsonRoundTrip(ToEptFeatures(BoundaryFile("urlA")))}

\* C31: the in-memory feature array is read-only for searches: after any
\* sequence of searchByExtent, getAllFeatures and getCount calls the array held
\* by the instance has the same features in the same order as when it was
\* loaded; sorting and truncation act on a copy.
C31_FeaturesReadOnly ==
  /\ [](features[1] # None => features[1][1] \in LoadedArrays)
  /\ [][\A c \in CallIds :
         (calls[c].pc = "ready" /\ calls'[c].pc = "done") => features' = features]_vars

\* a search has returned the feature with the larger count first, cut to its
\* limit, while the array in memory still starts with the first feature of the file
C31_Witness ==
  /\ features[1] # None /\ features[1][1][1].name = "a"
  /\ \E c \in CallIds :
       /\ calls[c].pc = "done" /\ calls[c].op = "searchByExtent"
       /\ calls[c].result.status = "resolved"
       /\ calls[c].result.numberMatched = 2
       /\ Len(calls[c].result.features) = 1
       /\ calls[c].result.features[1].name = "b"
  /\ \E d \in CallIds : calls[d].pc = "done" /\ calls[d].op \in {"getCount", "getAllFeatures"}

(***************************************************************************)
(* Properties of UsgsLidarControl.loadItem.                                *)
(***************************************************************************)
\* the loadItem calls that have got past `this._emit('loadstart')`
StartedLoads == {k \in CallIds : ctlLoads[k].events # <<>>}

\* C32: URL resolution for a unified item is routed by its sourceType alone:
\* a catalog-tagged item is resolved through StacSearcher.getCopcUrl on its
\* original STAC item (the url handed on is what that call resolved with), and
\* a spatial-index-tagged item resolves to its feature's url unchanged,
\* without any network or token request.
C32_RoutedBySourceType ==
  /\ [](\A k \in StartedLoads :
         LET load == ctlLoads[k]
         IN  IF load.item.sourceType = "copc"
             THEN /\ load.copc \in CallIds
                  /\ copcCalls[load.copc].item = load.item.originalItem
                  /\ load.url # None =>
                       /\ copcCalls[load.copc].result.status = "resolved"
                       /\ load.url = Some(copcCalls[load.copc].result.value)
                  /\ (load.pc = "done" /\ load.url = None) =>
                       copcCalls[load.copc].result.status = "rejected"
             ELSE /\ load.copc = 0
                  /\ load.url = Some(load.item.originalItem.url))
  /\ [][\A k \in CallIds :
         (ctlLoads'[k] # ctlLoads[k] /\ ctlLoads'[k].item.sourceType = "ept") =>
           /\ copcCalls' = copcCalls
           /\ tokenFetchCount' = tokenFetchCount
           /\ fetchCount' = fetchCount]_vars

\* a catalog item that also carries a url has been loaded from the url
\* getCopcUrl signed, and a spatial-index item whose url member differs from
\* its feature's has been loaded from the feature's url, with no token request
C32_Witness ==
  \E k, j \in CallIds :
    /\ ctlLoads[k].pc = "done" /\ ctlLoads[k].result = "resolved"
    /\ ctlLoads[k].item.sourceType = "copc" /\ ctlLoads[k].item.url # None
    /\ ctlLoads[k].url = Some(<<"https://host/f.copc.laz", "?", "sig=a">>)
    /\ ctlLoads[j].pc = "done" /\ ctlLoads[j].result = "resolved"
    /\ ctlLoads[j].item.sourceType = "ept"
    /\ ctlLoads[j].item.url # Some(ctlLoads[j].item.originalItem.url)
    /\ ctlLoads[j].url = Some("ept/a")
    /\ tokenFetchCount = 1

\* a property value that is neither undefined nor null
Present(v) == v # None /\ v # Some(JsonNull)

\* the unified items of the catalog that loadItem has been called with
ConvertedItems ==
  {ctlLoads[k].item : k \in {j \in CallIds : /\ ctlLoads[j].pc # "idle"
                                              /\ ctlLoads[j].item.sourceType = "copc"}}

\* C33: stacToUnified sets pointCount to the value of the first property that
\* is present (neither null nor undefined) in the fixed priority order
\* 'pc:count', then 'pointcloud:count', and leaves it absent when neither is
\* present; a present value of 0 counts as present and wins.
C33_PointCountPriority ==
  \A u \in ConvertedItems :
    LET pc == u.originalItem.pcCount
        pointcloud == u.originalItem.pointcloudCount
    IN  /\ Present(pc) => u.pointCount = pc
        /\ (~Present(pc) /\ Present(pointcloud)) => u.pointCount = pointcloud
        /\ (~Present(pc) /\ ~Present(pointcloud)) => ~Present(u.pointCount)

\* an item whose 'pc:count' is 0 and whose 'pointcloud:count' is 8 was
\* converted to a point count of 0, and one whose 'pc:count' is null to the
\* value of 'pointcloud:count'
C33_Witness ==
  /\ \E u \in ConvertedItems :
       /\ u.originalItem.pcCount = Some(0) /\ u.originalItem.pointcloudCount = Some(8)
       /\ u.pointCount = Some(0)
  /\ \E u \in ConvertedItems :
       /\ u.originalItem.pcCount = Some(JsonNull) /\ u.pointCount = Some(3)

(***************************************************************************)
(* Properties of getBboxFromGeometry and _computeBbox.                     *)
(***************************************************************************)
RECURSIVE Leaves(_)
\* the coordinate pairs at the leaves of a coordinates member
Leaves(coords) ==
  IF coords.leaf THEN {coords.xy}
  ELSE UNION {Leaves(coords.kids[i]) : i \in 1..Len(coords.kids)}

\* the coordinate pairs of a geometry
LeavesOf(g) == IF g.hasCoordinates THEN Leaves(g.coordinates) ELSE {}

Smallest(S) == CHOOSE v \in S : \A w \in S : v <= w
Largest(S) == CHOOSE v \in S : \A w \in S : v >= w

\* [min x, min y, max x, max y] over a set of pairs, the seed when it is empty
Extent(pairs) ==
  IF pairs = {} THEN <<Infinity, Infinity, NegInfinity, NegInfinity>>
  ELSE <<Smallest({p[1] : p \in pairs}), Smallest({p[2] : p \in pairs}),
         Largest({p[1] : p \in pairs}), Largest({p[2] : p \in pairs})>>

\* C34: getBboxFromGeometry, and EptSearcher._computeBbox which agrees with it
\* on every geometry, returns [min x, min y, max x, max y] over all leaf
\* coordinate pairs at any nesting depth, and the non-finite seed
\* [+Infinity, +Infinity, -Infinity, -Infinity] when the geometry has no
\* coordinate pairs; neither modifies the geometry.
C34_BboxOverLeaves ==
  bboxCall.pc = "done" =>
    /\ bboxCall.fromGeometry = Extent(LeavesOf(bboxCall.geometry))
    /\ bboxCall.computed = bboxCall.fromGeometry
    /\ bboxCall.geometry \in Geometries

\* the bbox of a MultiPolygon of two different rings (positions three arrays
\* deep) covers both rings
C34_Witness ==
  /\ bboxCall.pc = "done"
  /\ bboxCall.geometry.type = "MultiPolygon"
  /\ bboxCall.geometry.coordinates.kids # <<>>
  /\ bboxCall.geometry.coordinates.kids[1] = PolygonCoords(0, -1, 2, 2)
  /\ bboxCall.fromGeometry = <<-1, -1, 2, 2>>
  /\ bboxCall.computed = <<-1, -1, 2, 2>>

(***************************************************************************)
(* Properties of EptSearcher after a failed load.                          *)
(***************************************************************************)
\* the last load of searcher s has failed: the promise the callers were given
\* is rejected
LastLoadFailed(s) ==
  /\ Len(loadLog[s]) > 0 /\ loadLog[s][Len(loadLog[s])].settled
  /\ features[s] = None
  /\ loadPromise[s].state = "rejected"

\* C35: after a boundary load has failed on an EptSearcher instance, the next
\* searchByExtent call on that instance starts a new load (issuing a new fetch
\* of the boundary file when the cache gives nothing) instead of being rejected
\* with the earlier failure.
C35_RetryAfterFailedLoad ==
  [][\A c \in CallIds :
       (/\ calls[c].pc = "idle" /\ calls'[c].pc # "idle"
        /\ calls'[c].op = "searchByExtent"
        /\ LastLoadFailed(calls'[c].s)) =>
         /\ Len(loadLog'[calls'[c].s]) = Len(loadLog[calls'[c].s]) + 1
         /\ calls'[c].pc = "waiting"
         /\ ~HoldsUnexpiredEntry => fetchCount'[calls'[c].s] = fetchCount[calls'[c].s] + 1]_vars

(***************************************************************************)
(* Properties of overlapping searches on the control.                      *)
(***************************************************************************)
\* every search of the control has emitted its start, and the two were in
\* flight at the same time
Overlapped ==
  /\ \A k \in SearchIds : EventsOf(k) # {}
  /\ \A k, j \in SearchIds : StartOf(k) < EndOf(j) \/ ctlSearches[j].pc = "waiting"

\* the search whose 'searchstart' came last
LastStarted == CHOOSE k \in SearchIds : \A j \in SearchIds : StartOf(j) <= StartOf(k)

\* the total the response to search k carries
TotalOf(k) ==
  IF ctlSearches[k].branch = "copc"
  THEN ExpectedTotal(ctlSearches[k].stac.searchResponse.page)
  ELSE calls[ctlSearches[k].eptCall].result.numberMatched

\* C36: when two searchByBbox calls on the control overlap, then after both
\* have completed the control's searchResults, totalMatched and searchError
\* are those of the search that was started last, whatever order the two
\* responses arrive in, and isSearching is true for as long as any search is
\* still in flight.
C36_LastStartedWins ==
  /\ (\E k \in SearchIds : ctlSearches[k].pc = "waiting") => ctlState.isSearching
  /\ (Overlapped /\ \A k \in SearchIds : ctlSearches[k].pc = "done") =>
       LET final == ctlEvents[Len(ctlEvents)].state
           last == ctlSearches[LastStarted].result
       IN  IF last.status = "resolved"
           THEN /\ final.searchResults = last.items
                /\ final.totalMatched = Some(TotalOf(LastStarted))
                /\ final.searchError = None
           ELSE /\ final.searchResults = <<>>
                /\ final.searchError = Some(last.error)

\* C37: in every reachable state of the control, every item in searchResults
\* has a sourceType equal to the current dataSource, including when
\* setDataSource is called while a search for the previous source is still in
\* flight.
C37_ResultsMatchDataSource ==
  \A i \in 1..Len(ctlState.searchResults) :
    ctlState.searchResults[i].sourceType = ctlState.dataSource

(***************************************************************************)
(* Properties of searches over features restored from the cache.           *)
(***************************************************************************)
\* the names of the features of fs that searchByExtent matches against bbox
MatchedNames(fs, bbox) == {Filter(fs, bbox)[i].name : i \in 1..Len(Filter(fs, bbox))}

\* the features a fetch of the boundary file of searcher s yields
FreshFeatures(s) == ToEptFeatures(BoundaryFile(BoundaryUrl(s)))

\* C38: for the same boundary file and the same query bbox, searchByExtent
\* returns the same matched set and numberMatched whether the features were
\* freshly fetched or restored from the persistent cache after its
\* serialisation round trip, including for features whose derived bounding
\* box is non-finite because their geometry has no coordinates.
C38_SameAnswerFromCache ==
  \A c \in ResolvedSearches :
    /\ MatchedNames(calls[c].got, calls[c].bbox)
         = MatchedNames(FreshFeatures(calls[c].s), calls[c].bbox)
    /\ calls[c].result.numberMatched
         = Len(Filter(FreshFeatures(calls[c].s), calls[c].bbox))

(***************************************************************************)
(* Properties of the params object handed to StacSearcher.search.          *)
(***************************************************************************)
\* C39: StacSearcher.search never modifies the params object it is given:
\* after the call, whether it resolves or rejects, the caller's bbox array and
\* limit hold their original values even when the request was sent with a
\* clamped bbox or a capped limit.
C39_ParamsUntouched ==
  (searchCall.op \in SearchOps /\ searchCall.pc # "idle") =>
    /\ searchCall.params.bbox = searchCall.bbox
    /\ searchCall.params.limit = SuppliedLimit

\* a search handed a bbox with non-finite and out-of-range components and a
\* limit of 2000 has sent the clamped bbox and limit 1000 and was rejected;
\* the object it was handed still holds the bbox and the limit as given
C39_Witness ==
  /\ searchCall.pc = "done" /\ searchCall.result.status = "rejected"
  /\ searchCall.params = [bbox |-> Some(<<NaN, -91, 181, Infinity>>), limit |-> Some(2000)]
  /\ SentBody.bbox = Some(<<-180, -90, 180, 90>>)
  /\ SentBody.limit = Some(1000)
====
